---- MODULE Spec2Model ----
(***************************************************************************)
(* Release-planning core of the backend: ReleasePlanningService            *)
(* (generate_release_plan and its helpers) and ReleaseBacklogService       *)
(* (generate_backlog), over the document store collections they use.       *)
(*                                                                         *)
(* JSON documents are records.  A key that may be absent from a dict is    *)
(* modelled by a presence flag next to the value; an absent list is the    *)
(* empty sequence with its flag FALSE.  ISO date strings are <<y, m, d>>   *)
(* triples (<<>> is the empty string, an out-of-range field is a string    *)
(* datetime.fromisoformat rejects).                                        *)
(***************************************************************************)
EXTENDS Integers, Sequences, FiniteSets, TLC

(* ------------------------------ bounds -------------------------------- *)
\* most sprints in a plan the generation backend returns
MaxSprints == 2
\* most stories (over all sprints) in a plan the generation backend returns
MaxPlanStories == 2
\* most entries in the list the generation backend returns for a backlog
MaxBacklogLen == 3
\* most lines in the text the generation backend returns for a graph
MaxGraphLines == 2
\* most tokens in the JSON-like region of a response text
MaxRegionLen == 4
\* most stories in the body of one bulk insert
MaxBatch == 2
\* most stories of one project in the runs of bulk_insert_stories
MaxStoredStories == 3

(* ------------------------- program constants -------------------------- *)
NotFound == 404
Internal == 500
\* status of a call that returns (HTTP_201_CREATED of the generate route)
Created == 201
\* team_velocity hard-wired in the duplicate repair
RepairTeamVelocity == 30
\* the values the prompt's JSON example shows for a sprint
PromptStoryPointsPlanned == 30
PromptCapacityUsed == 100

(* ------------------------------ dates --------------------------------- *)
IsLeap(y) == (y % 4 = 0 /\ y % 100 # 0) \/ y % 400 = 0

DaysInMonth(y, m) ==
    IF m \in {1, 3, 5, 7, 8, 10, 12} THEN 31
    ELSE IF m \in {4, 6, 9, 11} THEN 30
    ELSE IF IsLeap(y) THEN 29 ELSE 28

RECURSIVE DaysBeforeMonth(_, _)
DaysBeforeMonth(y, m) ==
    IF m <= 1 THEN 0 ELSE DaysBeforeMonth(y, m - 1) + DaysInMonth(y, m - 1)

\* datetime.fromisoformat(s) succeeds (otherwise it raises ValueError)
fromisoformat_ok(s) ==
    /\ Len(s) = 3
    /\ s[1] \in 1..9999
    /\ s[2] \in 1..12
    /\ s[3] \in 1..DaysInMonth(s[1], s[2])

\* .date() of a parsed date, as its proleptic Gregorian ordinal
toordinal(s) ==
    LET y == s[1] - 1
    IN  365 * y + (y \div 4) - (y \div 100) + (y \div 400)
          + DaysBeforeMonth(s[1], s[2]) + s[3]

(* ----------------------------- documents ------------------------------ *)
None == [present |-> FALSE]

\* user_stories documents of the project (code, story_points)
Story1 == [code |-> "US-1", story_points |-> 5]
Story2 == [code |-> "US-2", story_points |-> 8]

\* project_configs document of the project
ProjectConfigDoc ==
    [present |-> TRUE, id |-> "cfg", team_velocity |-> 10,
     release_target_date |-> <<2024, 6, 1>>]

story_codes(stories) == {stories[k].code : k \in DOMAIN stories}

\* {} : the dict with no keys
EmptyDict ==
    [error |-> FALSE,
     has_sprints |-> FALSE, sprints |-> <<>>,
     project_analysis |-> [present |-> FALSE, target_date_feasible |-> TRUE,
                           recommended_adjustments |-> <<>>],
     risks |-> [present |-> FALSE, items |-> <<>>],
     recommendations |-> [present |-> FALSE, items |-> <<>>],
     usage |-> None]

\* `not release_plan`
IsFalsy(p) == p = EmptyDict

\* the structured error object of _clean_ai_response: a dict with an "error" key
ErrorObject == [EmptyDict EXCEPT !.error = TRUE]

(* ----------------- what the generation backend may return -------------- *)
\* a story entry of a sprint; code "" stands for a missing or empty code
PlanItems ==
    {[code |-> "US-1", story_points |-> 5],
     [code |-> "US-2", story_points |-> 8],
     [code |-> "", story_points |-> 3]}

StoryLists == UNION {[1..k -> PlanItems] : k \in 0..MaxPlanStories}

RECURSIVE TotalLen(_)
TotalLen(ss) == IF ss = <<>> THEN 0 ELSE Len(Head(ss)) + TotalLen(Tail(ss))

Layouts ==
    {l \in UNION {[1..k -> StoryLists] : k \in 0..MaxSprints} :
        TotalLen(l) <= MaxPlanStories}

\* end_date of the last sprint: before, on and after the target date,
\* a string fromisoformat rejects, and the empty string
EndDates ==
    {<<2024, 5, 20>>, <<2024, 6, 1>>, <<2024, 6, 15>>, <<2024, 13, 1>>, <<>>}

GenSprint(l, k, numbered, end_date) ==
    [has_sprint_number |-> numbered,
     sprint_number |-> IF numbered THEN k ELSE 0,
     end_date |-> IF k = Len(l) THEN end_date ELSE <<2024, 5, 6>>,
     stories |-> l[k],
     story_points_planned |-> PromptStoryPointsPlanned,
     capacity_used_percentage |-> PromptCapacityUsed]

GenRisk ==
    [level |-> "HIGH", description |-> "Descripcion del riesgo", days |-> 0]

\* a plan with every top-level block of the prompt's schema / with none
FullShape ==
    [EmptyDict EXCEPT
        !.project_analysis = [present |-> TRUE, target_date_feasible |-> TRUE,
                              recommended_adjustments |-> <<>>],
        !.risks = [present |-> TRUE, items |-> <<GenRisk>>],
        !.recommendations = [present |-> TRUE, items |-> <<"Recomendacion 1">>]]

Shapes == {FullShape, EmptyDict}

GeneratedPlans ==
    {[s EXCEPT !.has_sprints = TRUE,
               !.sprints = [k \in 1..Len(l) |-> GenSprint(l, k, numbered, d)]] :
        s \in Shapes, l \in Layouts, numbered \in BOOLEAN, d \in EndDates}
    \cup Shapes
    \cup {ErrorObject}

\* a "usage" object in the generated JSON
PlanUsage == [present |-> TRUE, prompt_tokens |-> 7, completion_tokens |-> 3]

\* response.usage_metadata of a generate_content call that returned
UsageMetadata == [prompt_token_count |-> 12, candidates_token_count |-> 5]

\* release_plan.get("usage", {}).get(key, 0)
plan_usage(plan, key) == IF plan.usage.present THEN plan.usage[key] ELSE 0

\* Text classes of a generation response:
\*   raise        generate_content or response.text raises
\*   empty        empty or blank text
\*   nojson       text with no region that parses as JSON
\*   fenced_array a markdown fence holding valid JSON that is not an object
\*   object       text whose extracted region is the JSON object doc
Responses ==
    {[kind |-> k, doc |-> EmptyDict] :
        k \in {"raise", "empty", "nojson", "fenced_array"}}
    \cup {[kind |-> "object", doc |-> p] : p \in GeneratedPlans}

(* --------------------- ReleasePlanningService: helpers ----------------- *)
\* _clean_ai_response: the cleaned text, as [raised, valid_json, doc].  Every
\* return path hands back text that json.loads accepts: the extracted region
\* after a successful json.loads, or json.dumps of the error object.  A fenced
\* region holding a JSON array raises AttributeError at parsed_json.keys().
clean_ai_response(response) ==
    CASE response.kind = "object" ->
            [raised |-> FALSE, valid_json |-> TRUE, doc |-> response.doc]
      [] response.kind = "fenced_array" ->
            [raised |-> TRUE, valid_json |-> FALSE, doc |-> EmptyDict]
      [] OTHER ->
            [raised |-> FALSE, valid_json |-> TRUE, doc |-> ErrorObject]

\* a plausible bug: the "error" key of the cleaned response is not looked at
generate_plan_with_ai_unchecked(response) ==
    IF response.kind = "raise"
    THEN [raised |-> TRUE, plan |-> EmptyDict]
    ELSE LET cleaned_response == clean_ai_response(response)
         IN  IF cleaned_response.raised \/ ~cleaned_response.valid_json
             THEN [raised |-> TRUE, plan |-> EmptyDict]
             ELSE [raised |-> FALSE, plan |-> cleaned_response.doc]

\* _generate_plan_with_ai: [raised, plan]; every exception of the body,
\* its own HTTPException included, leaves as HTTPException(500)
generate_plan_with_ai(response) ==
    IF response.kind = "raise"
    THEN [raised |-> TRUE, plan |-> EmptyDict]
    ELSE LET cleaned_response == clean_ai_response(response)
         IN  IF cleaned_response.raised
             THEN [raised |-> TRUE, plan |-> EmptyDict]
             ELSE IF cleaned_response.valid_json /\ cleaned_response.doc.error
             THEN [raised |-> TRUE, plan |-> EmptyDict]
             ELSE IF cleaned_response.valid_json
             THEN [raised |-> FALSE, plan |-> cleaned_response.doc]
             ELSE [raised |-> TRUE, plan |-> EmptyDict]

\* _regenerate_complete_plan: the plan the pipeline continues with
regenerate_complete_plan(partial_plan, response) ==
    IF response.kind = "raise"
    THEN partial_plan
    ELSE LET cleaned_response == clean_ai_response(response)
         IN  IF cleaned_response.raised
             THEN partial_plan
             ELSE IF cleaned_response.valid_json
             THEN cleaned_response.doc
             ELSE partial_plan

\* sum(len(sprint.get("stories", [])) for sprint in release_plan["sprints"])
RECURSIVE total_stories_in_plan(_)
total_stories_in_plan(sprints) ==
    IF sprints = <<>> THEN 0
    ELSE Len(Head(sprints).stories) + total_stories_in_plan(Tail(sprints))

\* the condition under which generate_release_plan regenerates
needs_regeneration(release_plan, user_stories) ==
    /\ ~IsFalsy(release_plan)
    /\ release_plan.has_sprints
    /\ total_stories_in_plan(release_plan.sprints) < Len(user_stories)

CriticalRisk(days_over) ==
    [level |-> "CRITICAL",
     description |-> "Fecha limite excedida por {days_over} dias - proyecto destinado al fracaso",
     days |-> days_over]

MediumRisk ==
    [level |-> "MEDIUM",
     description |-> "Proyecto termina exactamente en la fecha limite - sin margen de error",
     days |-> 0]

OverrunRecommendations ==
    <<"Reducir el alcance del proyecto o extender la fecha objetivo",
      "Aumentar la velocidad del equipo",
      "Reorganizar las historias en los sprints">>

\* a plausible bug: the risk reports weeks_over where it says days
validate_generated_plan_viability_weeks(release_plan, project_config) ==
    IF IsFalsy(release_plan) \/ ~release_plan.has_sprints
          \/ release_plan.sprints = <<>>
    THEN [is_viable |-> FALSE,
          recommendations |-> <<"Vuelva a generar el plan">>,
          risks |-> <<>>]
    ELSE LET last_sprint_end ==
                 release_plan.sprints[Len(release_plan.sprints)].end_date
             target_date_str == project_config.release_target_date
             nothing == [is_viable |-> TRUE, recommendations |-> <<>>,
                         risks |-> <<>>]
         IN  IF ~fromisoformat_ok(target_date_str)
                   \/ ~fromisoformat_ok(last_sprint_end)
             THEN nothing
             ELSE LET days_over == toordinal(last_sprint_end)
                                     - toordinal(target_date_str)
                  IN  IF days_over > 0
                      THEN [is_viable |-> FALSE,
                            recommendations |-> OverrunRecommendations,
                            risks |-> <<CriticalRisk(days_over \div 7)>>]
                      ELSE nothing

\* a plausible bug: dates that cannot be compared make the plan not viable
validate_generated_plan_viability_strict(release_plan, project_config) ==
    IF IsFalsy(release_plan) \/ ~release_plan.has_sprints
          \/ release_plan.sprints = <<>>
    THEN [is_viable |-> FALSE,
          recommendations |-> <<"Vuelva a generar el plan">>,
          risks |-> <<>>]
    ELSE LET last_sprint_end ==
                 release_plan.sprints[Len(release_plan.sprints)].end_date
             target_date_str == project_config.release_target_date
         IN  IF ~fromisoformat_ok(target_date_str)
                   \/ ~fromisoformat_ok(last_sprint_end)
             THEN [is_viable |-> FALSE,
                   recommendations |-> <<"Complete las fechas del plan">>,
                   risks |-> <<>>]
             ELSE LET target_date == toordinal(target_date_str)
                      project_end_date == toordinal(last_sprint_end)
                  IN  IF project_end_date > target_date
                      THEN [is_viable |-> FALSE,
                            recommendations |-> OverrunRecommendations,
                            risks |-> <<CriticalRisk(project_end_date
                                                        - target_date)>>]
                      ELSE IF project_end_date = target_date
                      THEN [is_viable |-> TRUE,
                            recommendations |-> <<>>,
                            risks |-> <<MediumRisk>>]
                      ELSE [is_viable |-> TRUE, recommendations |-> <<>>,
                            risks |-> <<>>]

\* the second definition of the method, the one the class keeps
validate_generated_plan_viability(release_plan, project_config) ==
    IF IsFalsy(release_plan) \/ ~release_plan.has_sprints
          \/ release_plan.sprints = <<>>
    THEN [is_viable |-> FALSE,
          recommendations |-> <<"Vuelva a generar el plan">>,
          risks |-> <<>>]
    ELSE LET last_sprint_end ==
                 release_plan.sprints[Len(release_plan.sprints)].end_date
             target_date_str == project_config.release_target_date
             nothing == [is_viable |-> TRUE, recommendations |-> <<>>,
                         risks |-> <<>>]
         IN  IF target_date_str = <<>> \/ last_sprint_end = <<>>
             THEN nothing
             ELSE IF ~fromisoformat_ok(target_date_str)
                       \/ ~fromisoformat_ok(last_sprint_end)
             THEN nothing
             ELSE LET target_date == toordinal(target_date_str)
                      project_end_date == toordinal(last_sprint_end)
                  IN  IF project_end_date > target_date
                      THEN [is_viable |-> FALSE,
                            recommendations |-> OverrunRecommendations,
                            risks |-> <<CriticalRisk(project_end_date
                                                        - target_date)>>]
                      ELSE IF project_end_date = target_date
                      THEN [is_viable |-> TRUE,
                            recommendations |->
                              <<"Proyecto ajustado justo a la fecha limite - considere buffer adicional">>,
                            risks |-> <<MediumRisk>>]
                      ELSE nothing

\* lines 166-182 of generate_release_plan: what is done with plan_viability
apply_plan_viability(release_plan, plan_viability) ==
    IF plan_viability.is_viable
    THEN release_plan
    ELSE [release_plan EXCEPT
            !.project_analysis =
                IF @.present
                THEN [@ EXCEPT !.target_date_feasible = FALSE,
                               !.recommended_adjustments =
                                   @ \o plan_viability.recommendations]
                ELSE @,
            !.risks = [present |-> TRUE,
                       items |-> @.items \o plan_viability.risks],
            !.recommendations =
                [present |-> TRUE,
                 items |-> @.items \o plan_viability.recommendations]]

(* ------------------------- duplicate repair --------------------------- *)
RECURSIVE sum_story_points(_)
sum_story_points(stories) ==
    IF stories = <<>> THEN 0
    ELSE Head(stories).story_points + sum_story_points(Tail(stories))

\* min(100, int((total_sp / team_velocity) * 100)) if team_velocity > 0 else 0
capacity_used(total_sp, team_velocity) ==
    IF team_velocity > 0
    THEN LET pct == (total_sp * 100) \div team_velocity
         IN  IF pct < 100 THEN pct ELSE 100
    ELSE 0

\* a plausible bug: a repeated code is kept instead of skipped
RECURSIVE fix_stories_keeping_repeats(_, _, _)
fix_stories_keeping_repeats(stories, seen, has_sprint_number) ==
    IF stories = <<>>
    THEN [corrected_stories |-> <<>>, seen |-> seen, duplicates |-> 0,
          raised |-> FALSE]
    ELSE LET story == Head(stories)
             rest == fix_stories_keeping_repeats(Tail(stories),
                         seen \cup {story.code}, has_sprint_number)
         IN  IF story.code = ""
             THEN fix_stories_keeping_repeats(Tail(stories), seen,
                                              has_sprint_number)
             ELSE IF ~has_sprint_number
             THEN [corrected_stories |-> <<>>, seen |-> seen,
                   duplicates |-> 0, raised |-> TRUE]
             ELSE [rest EXCEPT
                     !.corrected_stories = <<story>> \o @,
                     !.duplicates = IF story.code \in seen THEN @ + 1 ELSE @]

\* the inner loop of _check_and_fix_duplicate_stories over one sprint's
\* stories; seen is the key set of story_codes_in_plan.  Both branches read
\* sprint["sprint_number"], which raises KeyError when the key is absent.
RECURSIVE fix_stories(_, _, _)
fix_stories(stories, seen, has_sprint_number) ==
    IF stories = <<>>
    THEN [corrected_stories |-> <<>>, seen |-> seen, duplicates |-> 0,
          raised |-> FALSE]
    ELSE LET story == Head(stories)
         IN  IF story.code = ""
             THEN fix_stories(Tail(stories), seen, has_sprint_number)
             ELSE IF ~has_sprint_number
             THEN [corrected_stories |-> <<>>, seen |-> seen,
                   duplicates |-> 0, raised |-> TRUE]
             ELSE IF story.code \in seen
             THEN LET rest == fix_stories(Tail(stories), seen,
                                          has_sprint_number)
                  IN  [rest EXCEPT !.duplicates = @ + 1]
             ELSE LET rest == fix_stories(Tail(stories),
                                  seen \cup {story.code}, has_sprint_number)
                  IN  [rest EXCEPT !.corrected_stories = <<story>> \o @]

\* the outer loop over release_plan["sprints"]
RECURSIVE fix_sprints(_, _)
fix_sprints(sprints, seen) ==
    IF sprints = <<>>
    THEN [corrected_sprints |-> <<>>, seen |-> seen, duplicates |-> 0,
          raised |-> FALSE]
    ELSE LET sprint == Head(sprints)
             f == fix_stories(sprint.stories, seen, sprint.has_sprint_number)
             total_sp == sum_story_points(f.corrected_stories)
             corrected_sprint ==
                 [sprint EXCEPT
                    !.stories = f.corrected_stories,
                    !.story_points_planned = total_sp,
                    !.capacity_used_percentage =
                        capacity_used(total_sp, RepairTeamVelocity)]
             rest == fix_sprints(Tail(sprints), f.seen)
         IN  IF f.raised \/ rest.raised
             THEN [corrected_sprints |-> <<>>, seen |-> seen,
                   duplicates |-> 0, raised |-> TRUE]
             ELSE [corrected_sprints |->
                       <<corrected_sprint>> \o rest.corrected_sprints,
                   seen |-> rest.seen,
                   duplicates |-> f.duplicates + rest.duplicates,
                   raised |-> FALSE]

\* next((s for s in user_stories if s["code"] == missing_code), None)
original_story(user_stories, code) ==
    user_stories[CHOOSE k \in DOMAIN user_stories :
                    /\ user_stories[k].code = code
                    /\ \A j \in 1..(k - 1) : user_stories[j].code # code]

\* the loop that appends the missing stories to the last sprint, in the
\* order `order` in which the set missing_codes is iterated
RECURSIVE append_missing(_, _, _)
append_missing(last_sprint, order, user_stories) ==
    IF order = <<>> THEN last_sprint
    ELSE LET o == original_story(user_stories, Head(order))
             stories == Append(last_sprint.stories,
                           [code |-> o.code, story_points |-> o.story_points])
             total_sp == sum_story_points(stories)
         IN  append_missing(
                [last_sprint EXCEPT
                    !.stories = stories,
                    !.story_points_planned = total_sp,
                    !.capacity_used_percentage =
                        capacity_used(total_sp, RepairTeamVelocity)],
                Tail(order), user_stories)

Permutations_of(S) ==
    {p \in [1..Cardinality(S) -> S] :
        \A a, b \in 1..Cardinality(S) : a # b => p[a] # p[b]}

\* all_story_codes - included_codes, when the repair gets that far
missing_codes(release_plan, user_stories) ==
    IF IsFalsy(release_plan) \/ ~release_plan.has_sprints
    THEN {}
    ELSE story_codes(user_stories) \ fix_sprints(release_plan.sprints, {}).seen

\* _check_and_fix_duplicate_stories; order is the iteration order of the
\* set missing_codes (a Python set of strings has no fixed order)
check_and_fix_duplicate_stories(release_plan, user_stories, order) ==
    IF IsFalsy(release_plan) \/ ~release_plan.has_sprints
    THEN [raised |-> FALSE, duplicates_found |-> FALSE,
          corrected_plan |-> release_plan]
    ELSE LET f == fix_sprints(release_plan.sprints, {})
             n == Len(f.corrected_sprints)
             corrected_sprints ==
                 IF order # <<>> /\ n > 0
                 THEN [f.corrected_sprints EXCEPT
                         ![n] = append_missing(@, order, user_stories)]
                 ELSE f.corrected_sprints
         IN  IF f.raised
             THEN [raised |-> TRUE, duplicates_found |-> FALSE,
                   corrected_plan |-> release_plan]
             ELSE [raised |-> FALSE,
                   duplicates_found |-> f.duplicates > 0,
                   corrected_plan |->
                       [release_plan EXCEPT !.sprints = corrected_sprints]]

\* lines 186-191 of generate_release_plan: the corrected plan replaces the
\* plan only when duplicates were found
apply_duplicate_check(release_plan, duplicate_check) ==
    IF duplicate_check.duplicates_found
    THEN [duplicate_check.corrected_plan EXCEPT
            !.recommendations =
                [present |-> TRUE,
                 items |-> Append(@.items,
                    "Se corrigieron historias duplicadas en el plan generado")]]
    ELSE release_plan

\* the except clause that closes generate_release_plan: every exception of
\* the body, the HTTPException(404) raised in it included, is caught as
\* Exception and raised again as HTTPException(500)
generate_release_plan_except(status_code) == Internal

\* the status of a GET route that returns
Ok == 200

\* HTTPException(409, ...) of bulk_insert_stories
Conflict == 409

\* ReleasePlanningOut: the fields the response model requires, and the
\* keyword arguments generate_release_plan passes to it
ReleasePlanningOutFields ==
    {"id", "project_id", "releases", "num_releases", "project_analysis",
     "overall_risks", "overall_recommendations", "generated_at",
     "total_prompt_tokens", "total_completion_tokens",
     "total_processing_time_ms"}

generate_release_plan_kwargs ==
    {"id", "project_id", "release_plan", "generated_at",
     "total_prompt_tokens", "total_completion_tokens",
     "total_processing_time_ms"}

\* the keyword arguments get_release_plan passes to ReleasePlanningOut
get_release_plan_kwargs ==
    {"id", "project_id", "release_plan", "generated_at",
     "total_prompt_tokens", "total_completion_tokens",
     "total_processing_time_ms"}

\* BaseModel.__init__: a missing required field raises ValidationError
model_validates(fields, kwargs) == fields \subseteq kwargs

(* ----------------------------- identifiers ---------------------------- *)
HexDigits ==
    {"0", "1", "2", "3", "4", "5", "6", "7", "8", "9",
     "a", "b", "c", "d", "e", "f", "A", "B", "C", "D", "E", "F"}

\* bson.ObjectId(s) of a str succeeds: 24 hexadecimal characters; otherwise
\* it raises bson.errors.InvalidId
ObjectId_ok(s) == Len(s) = 24 /\ \A k \in DOMAIN s : s[k] \in HexDigits

\* project_id strings of a request: the project's, one too short, one of the
\* right length with a character that is no hexadecimal digit
ProjectIds ==
    {[k \in 1..24 |-> IF k % 2 = 0 THEN "4" ELSE "b"],
     [k \in 1..23 |-> "b"],
     [k \in 1..24 |-> IF k = 24 THEN "g" ELSE "b"]}

(* ------------------------------- state -------------------------------- *)
\* concurrent invocations of generate_release_plan
Procs == {1, 2}

VARIABLES
    \* document store, the collections of the one project
    project_configs,    \* its project_configs document, or None
    user_stories,       \* its user_stories documents, in cursor order
    release_plans,      \* its release_plans documents
    release_backlogs,   \* its release_backlogs documents
    dependencies_graph, \* its dependencies_graph document, or None
    next_id,            \* the next _id the store hands out
    \* generate_release_plan, per invocation
    pc,                 \* where the invocation is
    project_config,     \* local project_config
    stories,            \* local user_stories
    release_plan,       \* local release_plan
    outcome,            \* 0 while running, else the HTTP status
    generation_calls,   \* generate_content calls made so far
    \* generate_release_plan, what happened (read by the properties only)
    stored_before,      \* release_plans when the invocation began
    first_kind,         \* text class of the first response
    regen_kind,         \* text class of the regeneration response
    partial_plan,       \* the first plan, kept when regeneration gave no plan
    repair_input,       \* the plan handed to the duplicate repair
    duplicate_check,    \* what the duplicate repair returned
    \* generate_backlog, the one invocation
    backlog_pc,
    backlog_stories,    \* local stories
    backlog_response,   \* the response of the generation backend
    valid_backlog_codes,
    backlog_outcome,    \* 0 while running, else the HTTP status
    backlog_returned,   \* us_codes of the ReleaseBacklogOut returned
    \* the request
    project_id,         \* the project_id string of the calls
    \* build_graph, the one invocation
    graph_pc,
    graph_response,     \* the response of the generation backend
    graph_doc,          \* local graph_doc
    graph_outcome,      \* 0 while running, else the HTTP status
    graph_returned,     \* the DependencyGraph returned, or None
    \* get_backlog and get_release_plan, the last call of each
    get_backlog_outcome,
    get_backlog_returned,   \* us_codes of the ReleaseBacklogOut returned
    last_generated,         \* us_codes of the last generate_backlog that
                            \* returned, or <<>> (read by the properties only)
    get_plan_outcome,
    get_plan_found,         \* the document find_one gave get_release_plan
    get_plan_after_all,     \* every generate_release_plan had ended by then
    \* _clean_ai_response called on its own
    response_text,
    cleaned,
    \* bulk_insert_stories, the last call
    other_stories,      \* user_stories documents of another project
    bulk_target,        \* the project the call named
    bulk_batch,         \* the stories of the request body
    bulk_outcome        \* 0 before the first call, else the HTTP status

store_vars ==
    <<project_configs, user_stories, release_plans, release_backlogs,
      dependencies_graph, next_id>>
plan_vars ==
    <<pc, project_config, stories, release_plan, outcome, generation_calls,
      stored_before, first_kind, regen_kind, partial_plan, repair_input,
      duplicate_check>>
backlog_vars ==
    <<backlog_pc, backlog_stories, backlog_response, valid_backlog_codes,
      backlog_outcome, backlog_returned>>
stories_vars == <<other_stories, bulk_target, bulk_batch, bulk_outcome>>
request_vars == <<project_id, stories_vars>>
graph_vars ==
    <<graph_pc, graph_response, graph_doc, graph_outcome, graph_returned>>
get_backlog_vars == <<get_backlog_outcome, get_backlog_returned, last_generated>>
get_plan_vars == <<get_plan_outcome, get_plan_found, get_plan_after_all>>
clean_vars == <<response_text, cleaned>>
\* what generate_release_plan and generate_backlog never touch
rest_vars == <<request_vars, graph_vars, get_plan_vars, clean_vars>>
vars ==
    <<store_vars, plan_vars, backlog_vars, get_backlog_vars, rest_vars>>

\* a plan stored by an earlier, completed generation
OldPlanDoc ==
    [id |-> 0, by |-> 0,
     release_plan |->
        [FullShape EXCEPT
            !.has_sprints = TRUE,
            !.sprints = <<GenSprint(<< <<Story1>> >>, 1, TRUE,
                                    <<2024, 5, 20>>)>>],
     total_prompt_tokens |-> 0, total_completion_tokens |-> 0]

NoCheck ==
    [raised |-> FALSE, duplicates_found |-> FALSE, corrected_plan |-> EmptyDict]

InitPlanning ==
    /\ pc = [i \in Procs |-> "start"]
    /\ project_config = [i \in Procs |-> None]
    /\ stories = [i \in Procs |-> <<>>]
    /\ release_plan = [i \in Procs |-> EmptyDict]
    /\ outcome = [i \in Procs |-> 0]
    /\ generation_calls = [i \in Procs |-> 0]
    /\ stored_before = [i \in Procs |-> {}]
    /\ first_kind = [i \in Procs |-> "none"]
    /\ regen_kind = [i \in Procs |-> "none"]
    /\ partial_plan = [i \in Procs |-> EmptyDict]
    /\ repair_input = [i \in Procs |-> EmptyDict]
    /\ duplicate_check = [i \in Procs |-> NoCheck]

InitBacklogCall ==
    /\ backlog_pc = "start"
    /\ backlog_stories = <<>>
    /\ backlog_response = [kind |-> "none", items |-> <<>>]
    /\ valid_backlog_codes = <<>>
    /\ backlog_outcome = 0
    /\ backlog_returned = <<>>

InitGraphCall ==
    /\ graph_pc = "start"
    /\ graph_response = [kind |-> "none", lines |-> <<>>, usage |-> None]
    /\ graph_doc = None
    /\ graph_outcome = 0
    /\ graph_returned = None

InitReads ==
    /\ get_backlog_outcome = 0
    /\ get_backlog_returned = <<>>
    /\ last_generated = <<>>
    /\ get_plan_outcome = 0
    /\ get_plan_found = None
    /\ get_plan_after_all = FALSE

InitClean ==
    /\ response_text = <<>>
    /\ cleaned = [called |-> FALSE, raised |-> FALSE, error |-> "",
                  fields |-> {}, doc |-> <<>>]

InitBulk ==
    /\ other_stories = <<>>
    /\ bulk_target = "none"
    /\ bulk_batch = <<>>
    /\ bulk_outcome = 0

InitCalls ==
    /\ project_id \in ProjectIds
    /\ InitBulk
    /\ InitPlanning
    /\ InitBacklogCall
    /\ InitGraphCall
    /\ InitReads

InitStore(plans) ==
    /\ project_configs \in {None, ProjectConfigDoc}
    /\ user_stories \in {<<>>, <<Story1>>, <<Story1, Story2>>}
    /\ release_plans \in plans
    /\ release_backlogs = {}
    /\ dependencies_graph = None
    /\ next_id = 1
    /\ InitCalls
    /\ InitClean

\* The project already has a plan.  Only delete_many reads release_plans and
\* it leaves the collection empty whatever it held, so the runs of a project
\* with no plan yet are these runs with the old document left out.
Init == InitStore({{OldPlanDoc}})

\* concurrent invocations: a project with no plan yet, or with one
InitConc == InitStore({{}, {OldPlanDoc}})

(* ----------------------- generate_release_plan ------------------------ *)
Fail(i, status_code) ==
    /\ pc' = [pc EXCEPT ![i] = "done"]
    /\ outcome' = [outcome EXCEPT ![i] = generate_release_plan_except(status_code)]

\* await self._get_project_config(project_id); its ObjectId(project_id) is
\* the first the invocation evaluates
GetProjectConfig(i) ==
    /\ pc[i] = "start"
    /\ stored_before' = [stored_before EXCEPT ![i] = release_plans]
    /\ IF ~ObjectId_ok(project_id)
       THEN /\ Fail(i, Internal)
            /\ UNCHANGED project_config
       ELSE /\ project_config' = [project_config EXCEPT ![i] = project_configs]
            /\ IF ~project_configs.present
               THEN Fail(i, NotFound)
               ELSE /\ pc' = [pc EXCEPT ![i] = "get_stories"]
                    /\ UNCHANGED outcome
    /\ UNCHANGED <<store_vars, backlog_vars, get_backlog_vars, rest_vars,
                   stories, release_plan,
                   generation_calls, first_kind, regen_kind, partial_plan,
                   repair_input, duplicate_check>>

\* await self._get_project_stories(project_id)
GetProjectStories(i) ==
    /\ pc[i] = "get_stories"
    /\ stories' = [stories EXCEPT ![i] = user_stories]
    /\ IF user_stories = <<>>
       THEN Fail(i, NotFound)
       ELSE /\ pc' = [pc EXCEPT ![i] = "generate"]
            /\ UNCHANGED outcome
    /\ UNCHANGED <<store_vars, backlog_vars, get_backlog_vars, rest_vars,
                   project_config, release_plan,
                   generation_calls, stored_before, first_kind, regen_kind,
                   partial_plan, repair_input, duplicate_check>>

\* self._generate_plan_with_ai(...), then the completeness check
GeneratePlan(i, R) ==
    /\ pc[i] = "generate"
    /\ \E response \in R :
         LET g == generate_plan_with_ai(response)
         IN  /\ first_kind' = [first_kind EXCEPT ![i] =
                    IF response.kind = "object" /\ response.doc.error
                    THEN "error_object" ELSE response.kind]
             /\ generation_calls' = [generation_calls EXCEPT ![i] = @ + 1]
             /\ IF g.raised
                THEN /\ Fail(i, Internal)
                     /\ UNCHANGED release_plan
                ELSE /\ release_plan' = [release_plan EXCEPT ![i] = g.plan]
                     /\ pc' = [pc EXCEPT ![i] =
                                 IF needs_regeneration(g.plan, stories[i])
                                 THEN "regenerate" ELSE "validate"]
                     /\ UNCHANGED outcome
    /\ UNCHANGED <<store_vars, backlog_vars, get_backlog_vars, rest_vars,
                   project_config, stories,
                   stored_before, regen_kind, partial_plan, repair_input,
                   duplicate_check>>

\* self._regenerate_complete_plan(...)
RegeneratePlan(i, R) ==
    /\ pc[i] = "regenerate"
    /\ \E response \in R :
         /\ regen_kind' = [regen_kind EXCEPT ![i] = response.kind]
         /\ generation_calls' = [generation_calls EXCEPT ![i] = @ + 1]
         /\ partial_plan' = [partial_plan EXCEPT ![i] =
                IF response.kind = "object" THEN EmptyDict ELSE release_plan[i]]
         /\ release_plan' = [release_plan EXCEPT ![i] =
                regenerate_complete_plan(release_plan[i], response)]
    /\ pc' = [pc EXCEPT ![i] = "validate"]
    /\ UNCHANGED <<store_vars, backlog_vars, get_backlog_vars, rest_vars,
                   project_config, stories, outcome,
                   stored_before, first_kind, repair_input, duplicate_check>>

\* self._validate_generated_plan_viability(...) and what follows it
ValidatePlanViability(i) ==
    /\ pc[i] = "validate"
    /\ release_plan' = [release_plan EXCEPT ![i] =
          apply_plan_viability(@,
              validate_generated_plan_viability(@, project_config[i]))]
    /\ pc' = [pc EXCEPT ![i] = "dedupe"]
    /\ UNCHANGED <<store_vars, backlog_vars, get_backlog_vars, rest_vars,
                   project_config, stories, outcome,
                   generation_calls, stored_before, first_kind, regen_kind,
                   partial_plan, repair_input, duplicate_check>>

\* self._check_and_fix_duplicate_stories(...) and what follows it
FixDuplicateStories(i) ==
    /\ pc[i] = "dedupe"
    /\ \E order \in Permutations_of(missing_codes(release_plan[i], stories[i])) :
         LET d == check_and_fix_duplicate_stories(release_plan[i], stories[i],
                                                  order)
         IN  /\ repair_input' = [repair_input EXCEPT ![i] = release_plan[i]]
             /\ duplicate_check' = [duplicate_check EXCEPT ![i] = d]
             /\ IF d.raised
                THEN /\ Fail(i, Internal)
                     /\ UNCHANGED release_plan
                ELSE /\ release_plan' = [release_plan EXCEPT ![i] =
                            apply_duplicate_check(@, d)]
                     /\ pc' = [pc EXCEPT ![i] = "delete"]
                     /\ UNCHANGED outcome
    /\ UNCHANGED <<store_vars, backlog_vars, get_backlog_vars, rest_vars,
                   project_config, stories,
                   generation_calls, stored_before, first_kind, regen_kind,
                   partial_plan>>

\* await db.release_plans.delete_many({"project_id": ...})
DeletePreviousPlans(i) ==
    /\ pc[i] = "delete"
    /\ release_plans' = {}
    /\ pc' = [pc EXCEPT ![i] = "insert"]
    /\ UNCHANGED <<project_configs, user_stories, release_backlogs,
                   dependencies_graph, next_id, backlog_vars,
                   get_backlog_vars, rest_vars, project_config,
                   stories, release_plan, outcome, generation_calls,
                   stored_before, first_kind, regen_kind, partial_plan,
                   repair_input, duplicate_check>>

\* await db.release_plans.insert_one(plan_doc)
InsertPlan(i) ==
    /\ pc[i] = "insert"
    /\ release_plans' = release_plans \cup
          {[id |-> next_id, by |-> i, release_plan |-> release_plan[i],
            total_prompt_tokens |-> plan_usage(release_plan[i], "prompt_tokens"),
            total_completion_tokens |->
                plan_usage(release_plan[i], "completion_tokens")]}
    /\ next_id' = next_id + 1
    /\ pc' = [pc EXCEPT ![i] = "respond"]
    /\ UNCHANGED <<project_configs, user_stories, release_backlogs,
                   dependencies_graph, backlog_vars, get_backlog_vars,
                   rest_vars, project_config, stories,
                   release_plan, outcome, generation_calls, stored_before,
                   first_kind, regen_kind, partial_plan, repair_input,
                   duplicate_check>>

\* return ReleasePlanningOut(...)
BuildResponse(i) ==
    /\ pc[i] = "respond"
    /\ pc' = [pc EXCEPT ![i] = "done"]
    /\ outcome' = [outcome EXCEPT ![i] =
          IF model_validates(ReleasePlanningOutFields,
                             generate_release_plan_kwargs)
          THEN Created
          ELSE generate_release_plan_except(Internal)]
    /\ UNCHANGED <<store_vars, backlog_vars, get_backlog_vars, rest_vars,
                   project_config, stories,
                   release_plan, generation_calls, stored_before, first_kind,
                   regen_kind, partial_plan, repair_input, duplicate_check>>

generate_release_plan(i, R) ==
    \/ GetProjectConfig(i)
    \/ GetProjectStories(i)
    \/ GeneratePlan(i, R)
    \/ RegeneratePlan(i, R)
    \/ ValidatePlanViability(i)
    \/ FixDuplicateStories(i)
    \/ DeletePreviousPlans(i)
    \/ InsertPlan(i)
    \/ BuildResponse(i)

\* one invocation, any response of the generation backend
Next == generate_release_plan(1, Responses)

Spec == Init /\ [][Next]_vars

(* ------------------ the token counts of a release plan ---------------- *)
\* generated plans with and without a "usage" object of their own
TokenPlans ==
    {[p EXCEPT !.usage = u] :
        p \in {q \in GeneratedPlans :
                  /\ q.has_sprints /\ q.project_analysis.present
                  /\ \A k \in DOMAIN q.sprints :
                        /\ q.sprints[k].has_sprint_number
                        /\ q.sprints[k].end_date \in
                              {<<2024, 5, 6>>, <<2024, 5, 20>>}},
        u \in {None, PlanUsage}}

TokenResponses ==
    {[kind |-> "raise", doc |-> EmptyDict]}
    \cup {[kind |-> "object", doc |-> p] : p \in TokenPlans}

NextTokens == generate_release_plan(1, TokenResponses)

SpecTokens == Init /\ [][NextTokens]_vars

(* ---------------- the feasibility step of generate_release_plan -------- *)
\* release_target_date of the configuration: a date, the empty string, and
\* a string fromisoformat rejects
TargetDates == {<<2024, 6, 1>>, <<>>, <<2024, 13, 1>>}

ViabilityConfigs ==
    {[ProjectConfigDoc EXCEPT !.release_target_date = d] : d \in TargetDates}

\* invocation 1 has its configuration, its stories and a generated plan,
\* and is about to call _validate_generated_plan_viability
InitViability ==
    /\ project_configs \in ViabilityConfigs
    /\ user_stories = <<Story1, Story2>>
    /\ release_plans = {}
    /\ release_backlogs = {}
    /\ dependencies_graph = None
    /\ next_id = 1
    /\ project_id = CHOOSE id \in ProjectIds : ObjectId_ok(id)
    /\ InitBulk
    /\ InitBacklogCall
    /\ InitGraphCall
    /\ InitReads
    /\ InitClean
    /\ pc = [i \in Procs |-> IF i = 1 THEN "validate" ELSE "start"]
    /\ project_config = [i \in Procs |-> IF i = 1 THEN project_configs ELSE None]
    /\ stories = [i \in Procs |-> IF i = 1 THEN user_stories ELSE <<>>]
    /\ \E plan \in GeneratedPlans \ {ErrorObject} :
          release_plan = [i \in Procs |-> IF i = 1 THEN plan ELSE EmptyDict]
    /\ outcome = [i \in Procs |-> 0]
    /\ generation_calls = [i \in Procs |-> IF i = 1 THEN 1 ELSE 0]
    /\ stored_before = [i \in Procs |-> {}]
    /\ first_kind = [i \in Procs |-> IF i = 1 THEN "object" ELSE "none"]
    /\ regen_kind = [i \in Procs |-> "none"]
    /\ partial_plan = [i \in Procs |-> EmptyDict]
    /\ repair_input = [i \in Procs |-> EmptyDict]
    /\ duplicate_check = [i \in Procs |-> NoCheck]

NextViability == ValidatePlanViability(1)

SpecViability == InitViability /\ [][NextViability]_vars

(* --------------------------- _clean_ai_response ----------------------- *)
\* A response text is a sequence of tokens:
\*   "fence_json", "fence"   the markers of a code block, three backquotes
\*          with and without the word json
\*   "{" "}" "[" "]" ","
\*   "m"    an object member with a scalar value, as "a": 1
\*   "v"    a scalar value
\*   "t"    text with no brace, bracket or fence, and no JSON value
\* White space between the tokens is left out: strip(), the removal of blank
\* lines and of control characters change nothing that json.loads reads.
Fences == {"fence_json", "fence"}
JsonTokens == {"{", "}", "[", "]", ",", "m", "v"}

MinOf(S) == CHOOSE k \in S : \A other \in S : k <= other
MaxOf(S) == CHOOSE k \in S : \A other \in S : other <= k

\* the position after the members and the "}" of an object, 0 when the
\* text is no object there
RECURSIVE member_list_end(_, _)
member_list_end(text, p) ==
    IF p + 1 > Len(text) \/ text[p] # "m" THEN 0
    ELSE IF text[p + 1] = "}" THEN p + 2
    ELSE IF text[p + 1] = "," THEN member_list_end(text, p + 2)
    ELSE 0

\* the position after the JSON value that starts at p, 0 when there is none
RECURSIVE value_end(_, _)
RECURSIVE element_list_end(_, _)
value_end(text, p) ==
    IF p > Len(text) THEN 0
    ELSE IF text[p] = "v" THEN p + 1
    ELSE IF text[p] = "{"
    THEN IF p + 1 <= Len(text) /\ text[p + 1] = "}" THEN p + 2
         ELSE member_list_end(text, p + 1)
    ELSE IF text[p] = "["
    THEN IF p + 1 <= Len(text) /\ text[p + 1] = "]" THEN p + 2
         ELSE element_list_end(text, p + 1)
    ELSE 0

element_list_end(text, p) ==
    LET e == value_end(text, p)
    IN  IF e = 0 \/ e > Len(text) THEN 0
        ELSE IF text[e] = "]" THEN e + 1
        ELSE IF text[e] = "," THEN element_list_end(text, e + 1)
        ELSE 0

\* json.loads(text): [ok, kind]; not ok is json.JSONDecodeError
json_loads(text) ==
    IF text # <<>> /\ value_end(text, 1) = Len(text) + 1
    THEN [ok |-> TRUE,
          kind |-> IF text[1] = "{" THEN "object"
                   ELSE IF text[1] = "[" THEN "array" ELSE "scalar"]
    ELSE [ok |-> FALSE, kind |-> "none"]

\* the while loops that collect json_blocks: from start on, a marker and the
\* next marker after it; "fence_json" markers only in the first loop
RECURSIVE find_blocks(_, _, _)
find_blocks(text, start, json_only) ==
    LET opens == {k \in start..Len(text) :
                    IF json_only THEN text[k] = "fence_json"
                    ELSE text[k] \in Fences}
    IN  IF opens = {} THEN <<>>
        ELSE LET block_start == MinOf(opens)
                 closes == {k \in (block_start + 1)..Len(text) :
                              text[k] \in Fences}
             IN  IF closes = {} THEN <<>>
                 ELSE <<[start |-> block_start, end |-> MinOf(closes)]>>
                      \o find_blocks(text, MinOf(closes) + 1, json_only)

\* re.sub of the trailing-comma pattern: a comma right before a closing
\* brace or bracket goes
RECURSIVE remove_trailing_commas(_)
remove_trailing_commas(text) ==
    IF text = <<>> THEN <<>>
    ELSE IF Head(text) = "," /\ Len(text) >= 2 /\ text[2] \in {"}", "]"}
    THEN remove_trailing_commas(Tail(text))
    ELSE <<Head(text)>> \o remove_trailing_commas(Tail(text))

\* the two re.sub calls of the trailing-comma repair, one after the other
fix_trailing_commas(text) ==
    remove_trailing_commas(remove_trailing_commas(text))

\* re.sub of the repeated-comma pattern: a run of commas becomes one
RECURSIVE collapse_commas(_)
collapse_commas(text) ==
    IF text = <<>> THEN <<>>
    ELSE IF Head(text) = "," /\ Len(text) >= 2 /\ text[2] = ","
    THEN collapse_commas(Tail(text))
    ELSE <<Head(text)>> \o collapse_commas(Tail(text))

\* what _clean_ai_response gives back
Returned(doc) ==
    [called |-> TRUE, raised |-> FALSE, error |-> "", fields |-> {},
     doc |-> doc]
ErrorResult(tag, fields) ==
    [called |-> TRUE, raised |-> FALSE, error |-> tag, fields |-> fields,
     doc |-> <<>>]
Raised ==
    [called |-> TRUE, raised |-> TRUE, error |-> "", fields |-> {},
     doc |-> <<>>]

\* the keys of the error object returned for a fenced block
FencedErrorKeys ==
    {"error", "error_details", "response_length", "json_length",
     "json_preview", "markdown_blocks_found"}

\* the json.loads attempts on the content of a fence after the first failed
repair_fenced(json_content) ==
    LET fixed_json == fix_trailing_commas(json_content)
        other_fixed == fix_trailing_commas(collapse_commas(json_content))
    IN  IF json_loads(fixed_json).ok THEN Returned(fixed_json)
        ELSE IF json_loads(other_fixed).ok THEN Returned(other_fixed)
        ELSE ErrorResult("invalid_json", FencedErrorKeys)

\* the content of the last fenced block: parsed_json.keys() follows
\* json.loads in the try, and only json.JSONDecodeError is caught
clean_fenced(json_content) ==
    LET parsed_json == json_loads(json_content)
    IN  IF parsed_json.ok
        THEN IF parsed_json.kind = "object" THEN Returned(json_content)
             ELSE Raised
        ELSE repair_fenced(json_content)

\* response_text[start_brace:end_brace + 1], or <<>> when the condition on
\* start_brace and end_brace fails
potential_json(text) ==
    LET opens == {k \in DOMAIN text : text[k] = "{"}
        closes == {k \in DOMAIN text : text[k] = "}"}
    IN  IF opens # {} /\ closes # {} /\ MaxOf(closes) > MinOf(opens)
        THEN SubSeq(text, MinOf(opens), MaxOf(closes))
        ELSE <<>>

\* the direct search, and the error object that ends the method
clean_direct(text) ==
    IF json_loads(potential_json(text)).ok
    THEN Returned(potential_json(text))
    ELSE ErrorResult("invalid_json",
                     {"error", "error_details", "response_length",
                      "has_markdown", "has_json_start", "response_preview"})

\* the blocks the method looks at: the ones that open with the word json,
\* else all
json_blocks(text) ==
    IF find_blocks(text, 1, TRUE) # <<>> THEN find_blocks(text, 1, TRUE)
    ELSE find_blocks(text, 1, FALSE)

\* the text between the markers of the last block
last_block_content(text) ==
    LET block == json_blocks(text)[Len(json_blocks(text))]
    IN  SubSeq(text, block.start + 1, block.end - 1)

\* _clean_ai_response on the tokens of a text
clean_response_text(text) ==
    IF text = <<>> THEN ErrorResult("empty", {"error"})
    ELSE IF (\E k \in DOMAIN text : text[k] \in Fences)
            /\ json_blocks(text) # <<>>
    THEN clean_fenced(last_block_content(text))
    ELSE clean_direct(text)

\* the places of a region in a response text: bare, inside text, inside a
\* fence, after an earlier fenced block, after a fence that is not closed
TextLayouts ==
    {"bare", "in_text", "json_fence", "plain_fence", "json_fence_in_text",
     "second_block", "open_fence"}

ResponseText(layout, region) ==
    CASE layout = "bare" -> region
      [] layout = "in_text" -> <<"t">> \o region \o <<"t">>
      [] layout = "json_fence" -> <<"fence_json">> \o region \o <<"fence">>
      [] layout = "plain_fence" -> <<"fence">> \o region \o <<"fence">>
      [] layout = "json_fence_in_text" ->
            <<"t", "fence_json">> \o region \o <<"fence", "t">>
      [] layout = "second_block" ->
            <<"fence_json", "v", "fence", "fence_json">> \o region
            \o <<"fence">>
      [] layout = "open_fence" -> <<"fence_json">> \o region

InitCleaning ==
    /\ project_configs = None
    /\ user_stories = <<>>
    /\ release_plans = {}
    /\ release_backlogs = {}
    /\ dependencies_graph = None
    /\ next_id = 1
    /\ project_id = CHOOSE id \in ProjectIds : ObjectId_ok(id)
    /\ InitBulk
    /\ InitPlanning
    /\ InitBacklogCall
    /\ InitGraphCall
    /\ InitReads
    /\ \E n \in 0..MaxRegionLen, layout \in TextLayouts :
          \E region \in [1..n -> JsonTokens] :
             response_text = ResponseText(layout, region)
    /\ cleaned = [called |-> FALSE, raised |-> FALSE, error |-> "",
                  fields |-> {}, doc |-> <<>>]

CleanAiResponse ==
    /\ ~cleaned.called
    /\ cleaned' = clean_response_text(response_text)
    /\ UNCHANGED <<store_vars, plan_vars, backlog_vars, get_backlog_vars,
                   request_vars, graph_vars, get_plan_vars, response_text>>

NextCleaning == CleanAiResponse

SpecCleaning == InitCleaning /\ [][NextCleaning]_vars

(* ------------- concurrent invocations of generate_release_plan --------- *)
\* the responses of the backend in the concurrent runs: two plans that
\* differ, and a text with no JSON
ConcPlans ==
    {[FullShape EXCEPT
        !.has_sprints = TRUE,
        !.sprints = <<GenSprint(<<l>>, 1, TRUE, <<2024, 5, 20>>)>>] :
     l \in {<<Story1, Story2>>, <<Story1>>}}

ConcResponses ==
    {[kind |-> "nojson", doc |-> EmptyDict]}
    \cup {[kind |-> "object", doc |-> p] : p \in ConcPlans}

\* get_release_plan, one call at any moment: find_one without a sort gives
\* one of the documents that match; HTTPException(404) without one; else
\* ReleasePlanningOut(...) is built from the document
GetReleasePlan ==
    /\ get_plan_outcome = 0
    /\ get_plan_after_all' = \A i \in Procs : pc[i] = "done"
    /\ IF ~ObjectId_ok(project_id)
       THEN /\ get_plan_outcome' = Internal
            /\ UNCHANGED get_plan_found
       ELSE IF release_plans = {}
       THEN /\ get_plan_outcome' = NotFound
            /\ UNCHANGED get_plan_found
       ELSE /\ \E plan \in release_plans : get_plan_found' = plan
            /\ get_plan_outcome' =
                  IF model_validates(ReleasePlanningOutFields,
                                     get_release_plan_kwargs)
                  THEN Ok
                  ELSE Internal
    /\ UNCHANGED <<store_vars, plan_vars, backlog_vars, get_backlog_vars,
                   request_vars, graph_vars, clean_vars>>

NextConc ==
    \/ \E i \in Procs : generate_release_plan(i, ConcResponses)
    \/ GetReleasePlan

SpecConc == InitConc /\ [][NextConc]_vars

(* --------------------------- generate_backlog ------------------------- *)
\* codes the backend may name: two of the project, one of no story
BacklogCodes == {"US-1", "US-2", "US-9"}

\* Text classes of the backlog response:
\*   blocked     generate_content raises ValueError (safety block)
\*   error       generate_content raises another exception
\*   unparseable text json.loads rejects with JSONDecodeError
\*   too_deep    text of brackets nested deeper than the interpreter's
\*               recursion limit: json.loads raises RecursionError
\*   nonlist     JSON that is not a list of strings
\*   list        the JSON list of strings items
BacklogResponses ==
    {[kind |-> k, items |-> <<>>] :
        k \in {"blocked", "error", "unparseable", "too_deep", "nonlist"}}
    \cup {[kind |-> "list", items |-> s] :
            s \in UNION {[1..n -> BacklogCodes] : n \in 0..MaxBacklogLen}}

\* _generate inside _ask_gemini: the raw text; both except clauses return "[]"
generate_raw(response) ==
    IF response.kind \in {"blocked", "error"}
    THEN [kind |-> "list", items |-> <<>>]
    ELSE response

\* _ask_gemini: [raised, codes].  json.loads runs under
\* `except json.JSONDecodeError` only, so a RecursionError leaves the method.
ask_gemini(response) ==
    LET raw_response == generate_raw(response)
    IN  IF raw_response.kind = "too_deep"
        THEN [raised |-> TRUE, codes |-> <<>>]
        ELSE IF raw_response.kind = "list"
        THEN [raised |-> FALSE, codes |-> raw_response.items]
        ELSE [raised |-> FALSE, codes |-> <<>>]

\* position of a code in the lexicographic order of str
CodeRank(code) ==
    CASE code = "US-1" -> 1 [] code = "US-2" -> 2 [] code = "US-3" -> 3
      [] code = "US-4" -> 4 [] code = "US-9" -> 9
      [] OTHER -> 0

RECURSIVE insert_sorted(_, _)
insert_sorted(code, sorted_codes) ==
    IF sorted_codes = <<>> THEN <<code>>
    ELSE IF CodeRank(code) < CodeRank(Head(sorted_codes))
    THEN <<code>> \o sorted_codes
    ELSE <<Head(sorted_codes)>> \o insert_sorted(code, Tail(sorted_codes))

\* sorted([s['code'] for s in stories])
RECURSIVE sorted_story_codes(_)
sorted_story_codes(ss) ==
    IF ss = <<>> THEN <<>>
    ELSE insert_sorted(Head(ss).code, sorted_story_codes(Tail(ss)))

\* a plausible bug: the codes of the response are taken as they come
validate_backlog_codes_unfiltered(backlog_codes, ss) ==
    IF backlog_codes = <<>> THEN sorted_story_codes(ss) ELSE backlog_codes

\* a plausible bug: the valid codes are put in alphabetical order
validate_backlog_codes_sorted(backlog_codes, ss) ==
    LET existing_codes == story_codes(ss)
        valid == SelectSeq(backlog_codes, LAMBDA code : code \in existing_codes)
    IN  IF valid = <<>> THEN sorted_story_codes(ss)
        ELSE SelectSeq(sorted_story_codes(ss),
                       LAMBDA code : \E k \in DOMAIN valid : valid[k] = code)

\* lines 107-113 of generate_backlog
validate_backlog_codes(backlog_codes, ss) ==
    LET existing_codes == story_codes(ss)
        valid == SelectSeq(backlog_codes, LAMBDA code : code \in existing_codes)
    IN  IF valid = <<>> THEN sorted_story_codes(ss) ELSE valid

OldBacklogDoc == [id |-> 0, by |-> 0, us_codes |-> <<"US-1">>]

\* a graph stored by an earlier build_graph
GraphDoc ==
    [present |-> TRUE, by |-> 0,
     pairs |-> <<[frm |-> "US-1", to |-> <<"US-2">>]>>,
     total_prompt_tokens |-> 0, total_completion_tokens |-> 0]

InitBacklog ==
    /\ project_configs = None
    /\ user_stories \in
          {<<>>, <<Story1>>, <<Story1, Story2>>, <<Story2, Story1>>}
    /\ release_plans = {}
    /\ release_backlogs \in {{}, {OldBacklogDoc}}
    /\ dependencies_graph \in {None, GraphDoc}
    /\ next_id = 1
    /\ InitCalls
    /\ InitClean

\* an exception no handler of the service or of the route catches: the
\* framework answers the request with a server error
Unhandled == Internal

\* pid = ObjectId(project_id); await stories_cursor.to_list(None);
\* HTTPException(404) when empty
FindBacklogStories ==
    /\ backlog_pc = "start"
    /\ IF ~ObjectId_ok(project_id)
       THEN /\ backlog_pc' = "done"
            /\ backlog_outcome' = Unhandled
            /\ UNCHANGED backlog_stories
       ELSE /\ backlog_stories' = user_stories
            /\ IF user_stories = <<>>
               THEN /\ backlog_pc' = "done"
                    /\ backlog_outcome' = NotFound
               ELSE /\ backlog_pc' = "find_graph"
                    /\ UNCHANGED backlog_outcome
    /\ UNCHANGED <<store_vars, plan_vars, rest_vars, get_backlog_vars,
                   backlog_response, valid_backlog_codes, backlog_returned>>

\* await db.dependencies_graph.find_one(...); the graph goes into the
\* prompt text only
FindDependencyGraph ==
    /\ backlog_pc = "find_graph"
    /\ backlog_pc' = "ask"
    /\ UNCHANGED <<store_vars, plan_vars, rest_vars, get_backlog_vars,
                   backlog_stories, backlog_response, valid_backlog_codes,
                   backlog_outcome, backlog_returned>>

\* await self._ask_gemini(full_prompt), then the validation of the codes
AskGemini ==
    /\ backlog_pc = "ask"
    /\ \E response \in BacklogResponses :
         LET asked == ask_gemini(response)
         IN  /\ backlog_response' = response
             /\ IF asked.raised
                THEN /\ backlog_pc' = "done"
                     /\ backlog_outcome' = Unhandled
                     /\ UNCHANGED valid_backlog_codes
                ELSE /\ valid_backlog_codes' =
                           validate_backlog_codes(asked.codes, backlog_stories)
                     /\ backlog_pc' = "replace"
                     /\ UNCHANGED backlog_outcome
    /\ UNCHANGED <<store_vars, plan_vars, rest_vars, get_backlog_vars,
                   backlog_stories, backlog_returned>>

\* a plausible bug: the backlog is inserted, never replaced
ReplaceBacklogInserting ==
    /\ backlog_pc = "replace"
    /\ release_backlogs' = release_backlogs \cup
          {[id |-> next_id, by |-> 1, us_codes |-> valid_backlog_codes]}
    /\ next_id' = next_id + 1
    /\ backlog_pc' = "done"
    /\ backlog_outcome' = Created
    /\ backlog_returned' = valid_backlog_codes
    /\ last_generated' = valid_backlog_codes
    /\ UNCHANGED <<project_configs, user_stories, release_plans,
                   dependencies_graph, plan_vars, rest_vars,
                   get_backlog_outcome, get_backlog_returned, backlog_stories,
                   backlog_response, valid_backlog_codes>>

\* await db.release_backlogs.replace_one(..., upsert=True); when a document
\* was inserted the response is built at once
ReplaceBacklog ==
    /\ backlog_pc = "replace"
    /\ IF release_backlogs = {}
       THEN /\ release_backlogs' =
                  {[id |-> next_id, by |-> 1, us_codes |-> valid_backlog_codes]}
            /\ next_id' = next_id + 1
            /\ backlog_pc' = "done"
            /\ backlog_outcome' = Created
            /\ backlog_returned' = valid_backlog_codes
            /\ last_generated' = valid_backlog_codes
       ELSE /\ \E doc \in release_backlogs :
                  release_backlogs' = (release_backlogs \ {doc}) \cup
                     {[id |-> doc.id, by |-> 1,
                       us_codes |-> valid_backlog_codes]}
            /\ backlog_pc' = "find_id"
            /\ UNCHANGED <<next_id, backlog_outcome, backlog_returned,
                           last_generated>>
    /\ UNCHANGED <<project_configs, user_stories, release_plans,
                   dependencies_graph, plan_vars, rest_vars,
                   get_backlog_outcome, get_backlog_returned, backlog_stories,
                   backlog_response, valid_backlog_codes>>

\* await db.release_backlogs.find_one(..., {"_id": 1}), then the response
FindBacklogId ==
    /\ backlog_pc = "find_id"
    /\ backlog_pc' = "done"
    /\ IF release_backlogs # {}
       THEN /\ backlog_outcome' = Created
            /\ backlog_returned' = valid_backlog_codes
            /\ last_generated' = valid_backlog_codes
       ELSE /\ backlog_outcome' = Internal
            /\ UNCHANGED <<backlog_returned, last_generated>>
    /\ UNCHANGED <<store_vars, plan_vars, rest_vars, get_backlog_outcome,
                   get_backlog_returned, backlog_stories, backlog_response,
                   valid_backlog_codes>>

(* ------------------------------ get_backlog --------------------------- *)
\* pid = ObjectId(project_id); find_one({"project_id": pid});
\* HTTPException(404) without a document, else ReleaseBacklogOut(**doc).
\* The call starts when no generate_backlog is between its steps.
GetBacklog ==
    /\ backlog_pc \in {"start", "done"}
    /\ IF ~ObjectId_ok(project_id)
       THEN /\ get_backlog_outcome' = Unhandled
            /\ get_backlog_returned' = <<>>
       ELSE IF release_backlogs = {}
       THEN /\ get_backlog_outcome' = NotFound
            /\ get_backlog_returned' = <<>>
       ELSE \E doc \in release_backlogs :
               /\ get_backlog_outcome' = Ok
               /\ get_backlog_returned' = doc.us_codes
    /\ UNCHANGED <<store_vars, plan_vars, backlog_vars, rest_vars,
                   last_generated>>

\* the next generate_backlog request of the project, after the last ended
NewBacklogCall ==
    /\ backlog_pc = "done"
    /\ backlog_pc' = "start"
    /\ backlog_stories' = <<>>
    /\ backlog_response' = [kind |-> "none", items |-> <<>>]
    /\ valid_backlog_codes' = <<>>
    /\ backlog_outcome' = 0
    /\ backlog_returned' = <<>>
    /\ UNCHANGED <<store_vars, plan_vars, get_backlog_vars, rest_vars>>

(* ------------------------------ build_graph --------------------------- *)
\* an element of a "to" array that is itself an array (unhashable), and one
\* that is a number (hashable, no str)
NestedList == "[list]"
ANumber == "number"

\* the "to" value of a line: a string, a number, or an array
ToValues ==
    {[kind |-> "str", items |-> <<"US-2">>],
     [kind |-> "number", items |-> <<>>]}
    \cup {[kind |-> "list", items |-> t] :
            t \in {<<>>, <<"US-2">>, <<"US-2", "US-3">>, <<"US-3", "US-4">>,
                   <<"US-3", "US-2">>, <<"US-2", "US-2">>,
                   <<"US-2", NestedList, "US-3">>, <<NestedList>>,
                   <<ANumber>>}}

\* Lines of a response text:
\*   skip     a line that does not start with { and end with }
\*   bad_json a {...} line json.loads rejects
\*   no_key   a JSON object without "frm" or without "to"
\*   json     the JSON object {"frm": frm, "to": to}
GraphLines ==
    {[kind |-> k, frm |-> "US-1", to |-> [kind |-> "list", items |-> <<>>]] :
        k \in {"skip", "bad_json", "no_key"}}
    \cup {[kind |-> "json", frm |-> f, to |-> t] :
            f \in {"US-1", "US-2"}, t \in ToValues}

\* res.usage_metadata: absent, or the token counts it reports
Usages ==
    {None,
     [present |-> TRUE, prompt_token_count |-> 12,
      candidates_token_count |-> 5]}

\* Responses of the generation backend to build_graph:
\*   raise    model.generate_content raises
\*   blocked  the call returns, res.text raises ValueError (content blocked)
\*   text     res.text is the lines (none: the empty text)
GraphResponses ==
    {[kind |-> k, lines |-> <<>>, usage |-> u] :
        k \in {"raise", "blocked"}, u \in Usages}
    \cup {[kind |-> "text", lines |-> l, usage |-> u] :
            l \in UNION {[1..n -> GraphLines] : n \in 0..MaxGraphLines},
            u \in Usages}

\* a plausible bug: the token counts are kept only when res.text is returned
graph_generate_counting_text_only(response) ==
    LET counted == response.kind = "text" /\ response.usage.present
    IN  [raw |-> IF response.kind = "text" THEN response.lines ELSE <<>>,
         prompt_tokens |->
             IF counted THEN response.usage.prompt_token_count ELSE 0,
         completion_tokens |->
             IF counted THEN response.usage.candidates_token_count ELSE 0]

\* _generate inside _ask_gemini: [raw, prompt_tokens, completion_tokens].
\* The token counts are read from res.usage_metadata before res.text is.
graph_generate(response) ==
    LET counted == response.kind # "raise" /\ response.usage.present
    IN  [raw |-> IF response.kind = "text" THEN response.lines ELSE <<>>,
         prompt_tokens |->
             IF counted THEN response.usage.prompt_token_count ELSE 0,
         completion_tokens |->
             IF counted THEN response.usage.candidates_token_count ELSE 0]

\* set.update(to_lst): the elements are added one by one; an unhashable one
\* raises TypeError and leaves the ones added before it
RECURSIVE set_update(_, _)
set_update(tos, to_lst) ==
    IF to_lst = <<>> THEN tos
    ELSE IF Head(to_lst) = NestedList THEN tos
    ELSE set_update(tos \cup {Head(to_lst)}, Tail(to_lst))

\* bucket.setdefault(frm, set()): the bucket is a dict, modelled as the
\* sequence of its items in insertion order
setdefault(bucket, frm) ==
    IF \E k \in DOMAIN bucket : bucket[k].frm = frm
    THEN bucket
    ELSE Append(bucket, [frm |-> frm, tos |-> {}])

\* the body of the loop over raw.splitlines(), every exception caught
process_line(bucket, line) ==
    IF line.kind # "json" THEN bucket
    ELSE LET with_frm == setdefault(bucket, line.frm)
         IN  IF line.to.kind = "number" THEN with_frm
             ELSE [k \in DOMAIN with_frm |->
                     IF with_frm[k].frm = line.frm
                     THEN [with_frm[k] EXCEPT
                             !.tos = set_update(@, line.to.items)]
                     ELSE with_frm[k]]

RECURSIVE process_lines(_, _)
process_lines(bucket, lines) ==
    IF lines = <<>> THEN bucket
    ELSE process_lines(process_line(bucket, Head(lines)), Tail(lines))

\* sorted(tos) of a set of str
RECURSIVE sorted_codes(_)
sorted_codes(S) ==
    IF S = {} THEN <<>>
    ELSE LET least == CHOOSE x \in S : \A y \in S : CodeRank(x) <= CodeRank(y)
         IN  <<least>> \o sorted_codes(S \ {least})

\* _ask_gemini: [raised, pairs, prompt_tokens, completion_tokens].
\* DependencyPair(frm=frm, to=sorted(tos)) is built outside the try: a "to"
\* that holds a number raises (TypeError of sorted, or ValidationError).
graph_ask_gemini(response) ==
    LET generated == graph_generate(response)
        bucket == process_lines(<<>>, generated.raw)
    IN  [raised |-> \E k \in DOMAIN bucket : ANumber \in bucket[k].tos,
         pairs |-> [k \in DOMAIN bucket |->
                      [frm |-> bucket[k].frm,
                       to |-> sorted_codes(bucket[k].tos \ {ANumber})]],
         prompt_tokens |-> generated.prompt_tokens,
         completion_tokens |-> generated.completion_tokens]

\* a plausible bug: the stories are not looked at
FindGraphStoriesUnchecked ==
    /\ graph_pc = "start"
    /\ graph_pc' = IF ObjectId_ok(project_id) THEN "ask" ELSE "done"
    /\ graph_outcome' =
          IF ~ObjectId_ok(project_id) THEN Unhandled ELSE graph_outcome
    /\ UNCHANGED <<store_vars, plan_vars, backlog_vars, get_backlog_vars,
                   request_vars, get_plan_vars, clean_vars, graph_response,
                   graph_doc, graph_returned>>

\* pid = ObjectId(project_id); await db.user_stories.find(...).to_list(None);
\* HTTPException(404) when empty
FindGraphStories ==
    /\ graph_pc = "start"
    /\ graph_pc' = IF ObjectId_ok(project_id) /\ user_stories # <<>>
                   THEN "ask" ELSE "done"
    /\ graph_outcome' =
          IF ~ObjectId_ok(project_id) THEN Unhandled
          ELSE IF user_stories = <<>> THEN NotFound
          ELSE graph_outcome
    /\ UNCHANGED <<store_vars, plan_vars, backlog_vars, get_backlog_vars,
                   request_vars, get_plan_vars, clean_vars, graph_response,
                   graph_doc, graph_returned>>

\* await self._ask_gemini(DEPENDENCY_PROMPT + hu_list), then graph_doc
AskGeminiGraph(R) ==
    /\ graph_pc = "ask"
    /\ \E response \in R :
         LET asked == graph_ask_gemini(response)
         IN  /\ graph_response' = response
             /\ IF asked.raised
                THEN /\ graph_pc' = "done"
                     /\ graph_outcome' = Unhandled
                     /\ UNCHANGED graph_doc
                ELSE /\ graph_pc' = "replace"
                     /\ graph_doc' =
                           [present |-> TRUE, by |-> 1, pairs |-> asked.pairs,
                            total_prompt_tokens |-> asked.prompt_tokens,
                            total_completion_tokens |->
                                asked.completion_tokens]
                     /\ UNCHANGED graph_outcome
    /\ UNCHANGED <<store_vars, plan_vars, backlog_vars, get_backlog_vars,
                   request_vars, get_plan_vars, clean_vars, graph_returned>>

\* await db.dependencies_graph.replace_one(..., upsert=True), then
\* return DependencyGraph(**graph_doc)
ReplaceGraph ==
    /\ graph_pc = "replace"
    /\ dependencies_graph' = graph_doc
    /\ graph_pc' = "done"
    /\ graph_outcome' = Created
    /\ graph_returned' = graph_doc
    /\ UNCHANGED <<project_configs, user_stories, release_plans,
                   release_backlogs, next_id, plan_vars, backlog_vars,
                   get_backlog_vars, request_vars, get_plan_vars, clean_vars,
                   graph_response, graph_doc>>

build_graph(R) ==
    \/ FindGraphStories
    \/ AskGeminiGraph(R)
    \/ ReplaceGraph

NextGraph == build_graph(GraphResponses)

\* a project with stories or without, with a stored graph or without
InitGraph ==
    /\ project_configs = None
    /\ user_stories \in {<<>>, <<Story1, Story2>>}
    /\ release_plans = {}
    /\ release_backlogs = {}
    /\ dependencies_graph \in {None, GraphDoc}
    /\ next_id = 1
    /\ InitCalls
    /\ InitClean

SpecGraph == InitGraph /\ [][NextGraph]_vars

generate_backlog ==
    \/ FindBacklogStories
    \/ FindDependencyGraph
    \/ AskGemini
    \/ ReplaceBacklog
    \/ FindBacklogId

\* a project for which no backlog was generated yet
InitBacklogCalls ==
    /\ InitBacklog
    /\ release_backlogs = {}
    /\ dependencies_graph = None

\* generate_backlog and get_backlog calls of one project, one after another
NextBacklogCalls == generate_backlog \/ NewBacklogCall \/ GetBacklog

SpecBacklogCalls == InitBacklogCalls /\ [][NextBacklogCalls]_vars

\* the responses to build_graph in the runs that follow generate_backlog
FewGraphResponses ==
    {r \in GraphResponses :
        /\ r.usage.present
        /\ r.kind = "text" => (Len(r.lines) = 1 /\ r.lines[1].kind = "json"
                                 /\ r.lines[1].to.items = <<"US-2">>)}

\* one generate_backlog and one build_graph of the same project
NextBacklog == generate_backlog \/ build_graph(FewGraphResponses)

SpecBacklog == InitBacklog /\ [][NextBacklog]_vars

(* --------------------------- bulk_insert_stories ---------------------- *)
\* the stories of one request body
Batches == UNION {[1..n -> {Story1, Story2}] : n \in 0..MaxBatch}

\* the project of project_id, and another project of the database
Targets == {"this", "other"}

\* db.user_stories.find({"code": {"$in": codes}}): the filter has no
\* project_id, the documents of every project are searched
find_existing_codes(codes, this_project, other_project) ==
    codes \cap (story_codes(this_project) \cup story_codes(other_project))

\* POST /projects/{project_id}/stories/bulk, one call after another:
\* ObjectId(project_id); the search for the codes; HTTPException(409) when
\* one is found; insert_many(docs), which raises on an empty list
bulk_insert_stories ==
    \E target \in Targets, batch \in Batches :
       LET mine == IF target = "this" THEN user_stories ELSE other_stories
           theirs == IF target = "this" THEN other_stories ELSE user_stories
           existing == find_existing_codes(story_codes(batch), mine, theirs)
           inserted == mine \o batch
       IN  /\ Len(inserted) <= MaxStoredStories
           /\ bulk_target' = target
           /\ bulk_batch' = batch
           /\ IF target = "this" /\ ~ObjectId_ok(project_id)
              THEN /\ bulk_outcome' = Unhandled
                   /\ UNCHANGED <<user_stories, other_stories>>
              ELSE IF existing # {}
              THEN /\ bulk_outcome' = Conflict
                   /\ UNCHANGED <<user_stories, other_stories>>
              ELSE IF batch = <<>>
              THEN /\ bulk_outcome' = Unhandled
                   /\ UNCHANGED <<user_stories, other_stories>>
              ELSE /\ bulk_outcome' = Created
                   /\ IF target = "this"
                      THEN /\ user_stories' = inserted
                           /\ UNCHANGED other_stories
                      ELSE /\ other_stories' = inserted
                           /\ UNCHANGED user_stories
           /\ UNCHANGED <<project_configs, release_plans, release_backlogs,
                          dependencies_graph, next_id, plan_vars,
                          backlog_vars, get_backlog_vars, project_id,
                          graph_vars, get_plan_vars, clean_vars>>

\* a database with no story yet
InitStories ==
    /\ project_configs = None
    /\ user_stories = <<>>
    /\ release_plans = {}
    /\ release_backlogs = {}
    /\ dependencies_graph = None
    /\ next_id = 1
    /\ InitCalls
    /\ InitClean

NextStories == bulk_insert_stories

SpecStories == InitStories /\ [][NextStories]_vars

(* ------------- requests that share the event loop of the app ---------- *)
\* generate_release_plan runs from _generate_plan_with_ai to delete_many
\* without an await that suspends it: model.generate_content(...) is called
\* in the coroutine itself, in _generate_plan_with_ai and in
\* _regenerate_complete_plan
PlanCallOutstanding == \E i \in Procs : pc[i] \in {"generate", "regenerate"}

LoopHeld ==
    \E i \in Procs : pc[i] \in {"generate", "regenerate", "validate", "dedupe"}

\* build_graph and generate_backlog hand _generate to
\* anyio.to_thread.run_sync and are suspended until it returns
GraphCallOutstanding == graph_pc = "ask"

BacklogCallOutstanding == backlog_pc = "ask"

LoopResponses ==
    {[kind |-> "raise", doc |-> EmptyDict]} \cup ConcResponses

\* a step of a coroutine other than the one that holds the event loop
LoopPlanStep == generate_release_plan(1, LoopResponses)

LoopGraphStep == ~LoopHeld /\ build_graph(FewGraphResponses)

LoopBacklogStep == ~LoopHeld /\ generate_backlog

InitLoop ==
    /\ InitStore({{}})
    /\ project_configs = ProjectConfigDoc
    /\ user_stories = <<Story1, Story2>>
    /\ ObjectId_ok(project_id)

NextLoop == LoopPlanStep \/ LoopGraphStep \/ LoopBacklogStep

SpecLoop == InitLoop /\ [][NextLoop]_vars

(* ============================ properties ============================== *)
RECURSIVE count_in_stories(_, _)
count_in_stories(ss, code) ==
    IF ss = <<>> THEN 0
    ELSE (IF Head(ss).code = code THEN 1 ELSE 0)
            + count_in_stories(Tail(ss), code)

RECURSIVE count_in_sprints(_, _)
count_in_sprints(sprints, code) ==
    IF sprints = <<>> THEN 0
    ELSE count_in_stories(Head(sprints).stories, code)
            + count_in_sprints(Tail(sprints), code)

\* the documents the invocations of this run stored
NewPlanDocs == {doc \in release_plans : doc.by # 0}

\* first_kind is the text class of the first response; a JSON object that
\* carries an "error" key is recorded as "error_object"
ExtractorFailed(kind) == kind \in {"empty", "nojson", "error_object"}

\* C1: every persisted plan holds each code of the project's stories exactly
\* once over all its sprints, whatever the two generation calls returned.
C1_PersistedPlanCoversEveryStoryOnce ==
    \A doc \in NewPlanDocs :
        \A code \in story_codes(user_stories) :
            count_in_sprints(doc.release_plan.sprints, code) = 1

\* C2: in every reachable state, under every interleaving of concurrent
\* invocations, release_plans holds at most one document of the project.
C2_AtMostOnePlanPerProject == Cardinality(release_plans) <= 1

\* C3: an invocation for a project without ProjectConfig, or without stories,
\* ends with 404, makes no generation call and leaves release_plans as it was.
C3_MissingConfigOrStoriesIsNotFound ==
    \A i \in Procs :
        (pc[i] = "done" /\ ObjectId_ok(project_id)
            /\ (~project_configs.present \/ user_stories = <<>>))
        => /\ outcome[i] = NotFound
           /\ generation_calls[i] = 0
           /\ release_plans = stored_before[i]

\* C4: when the first response cannot be turned into a plan (the extractor
\* yields its error object, or the text is empty) the invocation ends with
\* 500 after that one call: no regeneration call, no delete, no insert, the
\* stored plan is the one stored before.
C4_UnparseableFirstResponseAborts ==
    \A i \in Procs :
        ExtractorFailed(first_kind[i])
        => /\ pc[i] = "done"
           /\ outcome[i] = Internal
           /\ generation_calls[i] = 1
           /\ regen_kind[i] = "none"
           /\ release_plans = stored_before[i]

C4_Witness ==
    /\ first_kind[1] = "nojson"
    /\ pc[1] = "done"
    /\ stored_before[1] = {OldPlanDoc}

\* C5: when the regeneration response gives no plan (the extractor reports
\* failure, or the call fails) the pipeline goes on with the first plan.
C5_FailedRegenerationKeepsPartialPlan ==
    \A i \in Procs :
        (pc[i] = "validate"
            /\ regen_kind[i] \in {"raise", "empty", "nojson", "fenced_array"})
        => release_plan[i] = partial_plan[i]

\* stories[j] of sprints[k] is the first occurrence of its code, in sprint
\* order then story order
IsFirstOccurrence(sprints, k, j) ==
    LET code == sprints[k].stories[j].code
    IN  /\ code # ""
        /\ \A k2 \in 1..k : \A j2 \in DOMAIN sprints[k2].stories :
              (k2 < k \/ j2 < j) => sprints[k2].stories[j2].code # code

RECURSIVE FirstOccurrencesFrom(_, _, _)
FirstOccurrencesFrom(sprints, k, j) ==
    IF j > Len(sprints[k].stories) THEN <<>>
    ELSE (IF IsFirstOccurrence(sprints, k, j)
          THEN <<sprints[k].stories[j]>> ELSE <<>>)
            \o FirstOccurrencesFrom(sprints, k, j + 1)

IsPrefix(s, t) == Len(s) <= Len(t) /\ SubSeq(t, 1, Len(s)) = s

RepairIsCorrect(plan, corrected) ==
    /\ corrected.has_sprints = plan.has_sprints
    /\ Len(corrected.sprints) = Len(plan.sprints)
    /\ \A k \in DOMAIN corrected.sprints :
         LET sprint == corrected.sprints[k]
             kept == FirstOccurrencesFrom(plan.sprints, k, 1)
         IN  /\ \A j \in DOMAIN sprint.stories :
                   count_in_sprints(corrected.sprints, sprint.stories[j].code) = 1
             /\ IsPrefix(kept, sprint.stories)
             /\ k < Len(corrected.sprints) => sprint.stories = kept
             /\ \A j \in (Len(kept) + 1)..Len(sprint.stories) :
                   count_in_sprints(plan.sprints, sprint.stories[j].code) = 0
             /\ sprint.story_points_planned = sum_story_points(sprint.stories)

\* C6: in the plan the duplicate repair returns, each code occurs at most
\* once, the occurrence kept is the first in sprint order then story order,
\* and story_points_planned of each sprint is the sum over its stories.
C6_RepairKeepsFirstOccurrence ==
    \A i \in Procs :
        ~duplicate_check[i].raised
        => RepairIsCorrect(repair_input[i], duplicate_check[i].corrected_plan)

C6_Witness ==
    /\ pc[1] = "delete"
    /\ duplicate_check[1].duplicates_found
    /\ Len(repair_input[1].sprints) = 2
    /\ count_in_stories(repair_input[1].sprints[1].stories, "US-1") = 1
    /\ count_in_stories(repair_input[1].sprints[2].stories, "US-1") = 1
    /\ count_in_sprints(duplicate_check[1].corrected_plan.sprints, "US-1") = 1

LastEndDate(plan) == plan.sprints[Len(plan.sprints)].end_date

DatesComparable(plan) ==
    /\ plan.has_sprints
    /\ plan.sprints # <<>>
    /\ project_configs.present
    /\ fromisoformat_ok(LastEndDate(plan))
    /\ fromisoformat_ok(project_configs.release_target_date)

DaysOver(plan) ==
    toordinal(LastEndDate(plan)) - toordinal(project_configs.release_target_date)

HasOverrunAnnotations(plan) ==
    /\ plan.risks.present
    /\ plan.risks.items # <<>>
    /\ plan.risks.items[Len(plan.risks.items)] = CriticalRisk(DaysOver(plan))
    /\ plan.recommendations.present
    /\ \E s \in 0..(Len(plan.recommendations.items) - 3) :
          SubSeq(plan.recommendations.items, s + 1, s + 3)
             = OverrunRecommendations

\* C7: a persisted plan whose last sprint ends after the target date has
\* the CRITICAL risk with the overrun in days appended, the three
\* recommendations appended, and project_analysis.target_date_feasible false,
\* also when the generator returned no project_analysis block.
C7_OverrunMarksPlanInfeasible ==
    \A doc \in NewPlanDocs :
        (DatesComparable(doc.release_plan) /\ DaysOver(doc.release_plan) > 0)
        => /\ HasOverrunAnnotations(doc.release_plan)
           /\ doc.release_plan.project_analysis.present
           /\ ~doc.release_plan.project_analysis.target_date_feasible

\* C7, amended: ... and project_analysis.target_date_feasible is false when
\* the plan has a project_analysis block; a plan without the block is
\* persisted without one.
C7_OverrunAnnotatesPlan ==
    \A doc \in NewPlanDocs :
        (DatesComparable(doc.release_plan) /\ DaysOver(doc.release_plan) > 0)
        => /\ HasOverrunAnnotations(doc.release_plan)
           /\ doc.release_plan.project_analysis.present
                => ~doc.release_plan.project_analysis.target_date_feasible

C7_Witness ==
    \E doc \in NewPlanDocs :
        /\ DatesComparable(doc.release_plan)
        /\ LastEndDate(doc.release_plan) = <<2024, 6, 15>>
        /\ project_configs.release_target_date = <<2024, 6, 1>>
        /\ doc.release_plan.risks.items # <<>>
        /\ doc.release_plan.risks.items[Len(doc.release_plan.risks.items)]
             = CriticalRisk(14)
        /\ doc.release_plan.project_analysis.present
        /\ ~doc.release_plan.project_analysis.target_date_feasible

\* C8: a persisted plan whose last sprint ends on the target date has the
\* MEDIUM zero-margin risk in its risks, and is not marked infeasible.
C8_ZeroMarginAddsMediumRisk ==
    \A doc \in NewPlanDocs :
        (DatesComparable(doc.release_plan) /\ DaysOver(doc.release_plan) = 0)
        => /\ \E k \in DOMAIN doc.release_plan.risks.items :
                 doc.release_plan.risks.items[k] = MediumRisk
           /\ ~(doc.release_plan.project_analysis.present
                  /\ ~doc.release_plan.project_analysis.target_date_feasible)

\* C9: once the first response has been parsed into a plan, the invocation
\* ends with a plan stored: no later stage aborts it or drops the plan.
C9_ParsedPlanIsAlwaysPersisted ==
    \A i \in Procs :
        (pc[i] = "done" /\ first_kind[i] = "object")
        => \E doc \in release_plans : doc.by = i

\* C10: every code of the us_codes that generate_backlog stores and returns
\* is the code of a story of the project, whatever the response text was.
C10_BacklogCodesAreProjectCodes ==
    /\ \A doc \in release_backlogs :
          doc.by # 0
          => \A k \in DOMAIN doc.us_codes :
                doc.us_codes[k] \in story_codes(user_stories)
    /\ \A k \in DOMAIN backlog_returned :
          backlog_returned[k] \in story_codes(user_stories)

C10_Witness ==
    /\ backlog_pc = "done"
    /\ backlog_outcome = Created
    /\ backlog_response.kind = "list"
    /\ \E a, b \in DOMAIN backlog_response.items :
          /\ backlog_response.items[a] = "US-9"
          /\ backlog_response.items[b] = "US-1"
    /\ backlog_returned = <<"US-1">>
    /\ \E doc \in release_backlogs : doc.by = 1 /\ doc.us_codes = <<"US-1">>

\* the response gives no usable code: every class of response but a list
\* that names a story of the project
NothingUsable(response, ss) ==
    \/ response.kind \in {"blocked", "error", "unparseable", "too_deep", "nonlist"}
    \/ /\ response.kind = "list"
       /\ \A k \in DOMAIN response.items : response.items[k] \notin story_codes(ss)

\* C11: for a project with at least one story generate_backlog succeeds and
\* never stores or returns an empty us_codes; when the response gives nothing
\* usable (blocked, raised, unparseable, not a list, only foreign codes) the
\* backlog is all the story codes in ascending order.
C11_FallbackIsSortedStoryCodes ==
    (backlog_pc = "done" /\ ObjectId_ok(project_id) /\ user_stories # <<>>)
    => /\ backlog_outcome = Created
       /\ backlog_returned # <<>>
       /\ \A doc \in release_backlogs : doc.by # 0 => doc.us_codes # <<>>
       /\ NothingUsable(backlog_response, user_stories)
            => /\ backlog_returned = sorted_story_codes(user_stories)
               /\ \E doc \in release_backlogs :
                     doc.by # 0 /\ doc.us_codes = sorted_story_codes(user_stories)

\* a line the prompt's format allows, or the one-string "to" the code accepts
WellFormed(line) ==
    /\ line.kind = "json"
    /\ line.to.kind \in {"str", "list"}
    /\ \A k \in DOMAIN line.to.items :
          line.to.items[k] \notin {NestedList, ANumber}

\* the union of the "to" of the well-formed lines that name frm
UnionOfTo(lines, frm) ==
    UNION {{lines[k].to.items[j] : j \in DOMAIN lines[k].to.items} :
             k \in {n \in DOMAIN lines :
                      WellFormed(lines[n]) /\ lines[n].frm = frm}}

\* C12: the graph build_graph returns has, for each prerequisite code, the
\* union of the "to" lists of the well-formed lines naming it, each dependent
\* once, and every prerequisite a well-formed line names has one pair.
C12_GraphIsUnionOfWellFormedLines ==
    (graph_pc = "done" /\ graph_outcome = Created)
    => LET lines == graph_response.lines
           pairs == graph_returned.pairs
       IN  /\ \A k \in DOMAIN pairs :
                 pairs[k].to = sorted_codes(UnionOfTo(lines, pairs[k].frm))
           /\ \A n \in DOMAIN lines :
                 WellFormed(lines[n])
                 => Cardinality({k \in DOMAIN pairs :
                                   pairs[k].frm = lines[n].frm}) = 1

\* the generation gave build_graph no text: the call raised, the content
\* was blocked, or the text is empty
NoGraphText(response) ==
    \/ response.kind \in {"raise", "blocked"}
    \/ response.kind = "text" /\ response.lines = <<>>

GraphCallEnded ==
    /\ graph_pc = "done"
    /\ ObjectId_ok(project_id)
    /\ user_stories # <<>>

C14_NoStoriesIsNotFound ==
    (ObjectId_ok(project_id) /\ user_stories = <<>>)
    => /\ graph_pc = "done"
          => (graph_outcome = NotFound /\ graph_response.kind = "none")
       /\ backlog_pc = "done"
          => (backlog_outcome = NotFound /\ backlog_response.kind = "none")
       /\ dependencies_graph \in {None, GraphDoc}
       /\ release_backlogs \subseteq {OldBacklogDoc}

C14_Witness ==
    /\ ObjectId_ok(project_id)
    /\ user_stories = <<>>
    /\ graph_pc = "done" /\ graph_outcome = NotFound
    /\ backlog_pc = "done" /\ backlog_outcome = NotFound
    /\ dependencies_graph = GraphDoc
    /\ release_backlogs = {OldBacklogDoc}

\* C15: get_backlog, called between generate_backlog calls, ends with 404
\* exactly when no generate_backlog of the project has returned a backlog;
\* otherwise it returns the us_codes of the last one that did, and the store
\* holds exactly one backlog document.
C15_GetBacklogReturnsLastGenerated ==
    [][(GetBacklog /\ ObjectId_ok(project_id))
       => /\ get_backlog_outcome' \in {NotFound, Ok}
          /\ get_backlog_outcome' = NotFound <=> last_generated = <<>>
          /\ get_backlog_outcome' = NotFound => release_backlogs = {}
          /\ get_backlog_outcome' = Ok
             => /\ get_backlog_returned' = last_generated
                /\ Cardinality(release_backlogs) = 1]_vars

C15_Witness ==
    /\ ObjectId_ok(project_id)
    /\ get_backlog_outcome = Ok
    /\ get_backlog_returned = <<"US-2", "US-1">>
    /\ backlog_pc = "done"
    /\ backlog_outcome = Created
    /\ \E doc \in release_backlogs : doc.id = 1 /\ doc.us_codes = <<"US-2", "US-1">>

\* the HTTP statuses of a client error, a rejected request among them
ClientErrors == 400..499

\* C16: an operation called with a project_id that is not 24 hexadecimal
\* characters ends with a client-error status, never a server error, and no
\* stored plan, backlog or graph is one the call wrote.
C16_MalformedIdIsRejected ==
    ~ObjectId_ok(project_id)
    => /\ \A i \in Procs : pc[i] = "done" => outcome[i] \in ClientErrors
       /\ backlog_pc = "done" => backlog_outcome \in ClientErrors
       /\ graph_pc = "done" => graph_outcome \in ClientErrors
       /\ get_backlog_outcome # 0 => get_backlog_outcome \in ClientErrors
       /\ get_plan_outcome # 0 => get_plan_outcome \in ClientErrors
       /\ \A doc \in release_plans \cup release_backlogs : doc.by = 0
       /\ dependencies_graph # None => dependencies_graph.by = 0

\* both invocations have inserted their plan and ended; get_release_plan
\* was called after that and found a document
ReadAfterBothInserted ==
    /\ get_plan_after_all
    /\ get_plan_outcome # 0
    /\ next_id = 3

\* the plan whose insert happened last: _id values are handed out in order
LastInserted ==
    CHOOSE plan \in release_plans :
       \A other \in release_plans : other.id <= plan.id

\* C17: once two concurrent generate_release_plan invocations of a project
\* have both inserted and ended, get_release_plan returns the plan of the
\* invocation whose insert happened last.
C17_LastWriteWins ==
    ReadAfterBothInserted
    => /\ get_plan_outcome = Ok
       /\ get_plan_found = LastInserted

\* the region _clean_ai_response takes from the text: the content of the
\* last fenced block, else the text from the first "{" to the last "}"
Fenced(text) ==
    (\E k \in DOMAIN text : text[k] \in Fences) /\ json_blocks(text) # <<>>

ExtractedRegion(text) ==
    IF Fenced(text) THEN last_block_content(text) ELSE potential_json(text)

\* an error object with a tag, a message, the input length and a preview
StructuredError(result) ==
    /\ result.error # ""
    /\ {"error", "error_details", "response_length"} \subseteq result.fields
    /\ result.fields \cap {"json_preview", "response_preview"} # {}

\* C18: for every response text _clean_ai_response returns without raising,
\* and what it returns is a JSON document or a structured error object.
C18_CleanNeverRaises ==
    cleaned.called
    => /\ ~cleaned.raised
       /\ \/ cleaned.error = "" /\ json_loads(cleaned.doc).ok
          \/ StructuredError(cleaned)

\* valid JSON but for commas right before a "}" or "]"
OnlyTrailingCommas(region) ==
    /\ ~json_loads(region).ok
    /\ json_loads(remove_trailing_commas(region)).ok

\* C19: when the extracted region is valid JSON but for trailing commas,
\* from a fence or from the first "{" to the last "}", _clean_ai_response
\* returns the region with those commas removed, not an error object.
C19_TrailingCommasRepaired ==
    (cleaned.called /\ OnlyTrailingCommas(ExtractedRegion(response_text)))
    => /\ ~cleaned.raised
       /\ cleaned.error = ""
       /\ cleaned.doc = remove_trailing_commas(ExtractedRegion(response_text))

\* the distinct story codes in the sprints of a plan; the code "" is an
\* entry without a code
DistinctPlanCodes(plan) ==
    IF IsFalsy(plan) \/ ~plan.has_sprints THEN {}
    ELSE UNION {story_codes(plan.sprints[k].stories) :
                  k \in DOMAIN plan.sprints} \ {""}

\* the first plan has fewer distinct story codes than the project has stories
FirstPlanIncomplete(i) ==
    Cardinality(DistinctPlanCodes(release_plan[i])) < Len(stories[i])

\* C20: generate_release_plan goes to the regeneration call exactly when the
\* first plan has fewer distinct story codes than the project has stories,
\* and an invocation makes at most two generation calls.
C20_RegeneratesWhenCodesMissing ==
    \A i \in Procs :
       /\ pc[i] = "regenerate" => FirstPlanIncomplete(i)
       /\ (pc[i] = "validate" /\ generation_calls[i] = 1)
          => ~FirstPlanIncomplete(i)
       /\ generation_calls[i] <= 2

\* min(100, points / team_velocity * 100) with the velocity of the project's
\* configuration, 0 when that velocity is 0 (the integer part, as the plan
\* stores an int)
ConfiguredCapacity(points, team_velocity) ==
    IF team_velocity = 0 THEN 0
    ELSE IF points >= team_velocity THEN 100
    ELSE (points * 100) \div team_velocity

\* the duplicate repair of invocation i went through the sprints of a plan
RepairRan(i) ==
    /\ pc[i] \in {"delete", "insert", "respond", "done"}
    /\ project_config[i] # None
    /\ project_config[i].present
    /\ ~duplicate_check[i].raised
    /\ duplicate_check[i].corrected_plan.has_sprints

\* C21: in the plan the duplicate repair hands back, every sprint's
\* capacity_used_percentage is min(100, story_points_planned / team_velocity
\* * 100) for the team_velocity of the project's configuration.
C21_CapacityUsesConfiguredVelocity ==
    \A i \in Procs :
       RepairRan(i)
       => \A k \in DOMAIN duplicate_check[i].corrected_plan.sprints :
             LET sprint == duplicate_check[i].corrected_plan.sprints[k]
             IN  sprint.capacity_used_percentage =
                    ConfiguredCapacity(sprint.story_points_planned,
                                       project_config[i].team_velocity)

\* the plan has a sprint, and its last end_date is before the target date,
\* or one of the two dates is missing or is no date
EarlyOrNotComparable(plan, config) ==
    /\ ~IsFalsy(plan) /\ plan.has_sprints /\ plan.sprints # <<>>
    /\ LET last_sprint_end == plan.sprints[Len(plan.sprints)].end_date
           target_date_str == config.release_target_date
       IN  \/ ~fromisoformat_ok(last_sprint_end)
           \/ ~fromisoformat_ok(target_date_str)
           \/ toordinal(last_sprint_end) < toordinal(target_date_str)

\* C22: for a plan with a sprint whose last end_date is earlier than the
\* target date, or with a date missing or unparseable, the feasibility step
\* leaves risks, recommendations and project_analysis as they were generated.
C22_FeasibleLeavesPlanAlone ==
    [][(ValidatePlanViability(1)
          /\ EarlyOrNotComparable(release_plan[1], project_config[1]))
       => /\ release_plan'[1].risks = release_plan[1].risks
          /\ release_plan'[1].recommendations = release_plan[1].recommendations
          /\ release_plan'[1].project_analysis = release_plan[1].project_analysis
      ]_vars

C22_Witness ==
    /\ pc[1] = "dedupe"
    /\ project_config[1].release_target_date = <<>>
    /\ release_plan[1].has_sprints
    /\ release_plan[1].sprints # <<>>
    /\ release_plan[1].sprints[Len(release_plan[1].sprints)].end_date
          = <<2024, 6, 15>>
    /\ release_plan[1].project_analysis.present
    /\ release_plan[1].project_analysis.target_date_feasible
    /\ release_plan[1].risks.items = <<GenRisk>>

\* no story code is repeated in the sprints of the plan, and no entry is
\* without a code: what the duplicate repair leaves
Deduplicated(plan) ==
    (~IsFalsy(plan) /\ plan.has_sprints)
    => total_stories_in_plan(plan.sprints)
          = Cardinality(DistinctPlanCodes(plan))

\* C23: the feasibility check of an invocation comes after the duplicate
\* repair: the plan it is evaluated on is the deduplicated plan.
C23_FeasibilityAfterDuplicateRepair ==
    \A i \in Procs :
       pc[i] = "validate"
       => /\ Deduplicated(release_plan[i])
          /\ duplicate_check[i] # NoCheck

\* the edges (prerequisite, dependent) of a stored dependency graph
Edges(graph) ==
    IF ~graph.present THEN {}
    ELSE UNION {{<<graph.pairs[k].frm, graph.pairs[k].to[j]>> :
                    j \in DOMAIN graph.pairs[k].to} : k \in DOMAIN graph.pairs}

Codes(seq) == {seq[k] : k \in DOMAIN seq}

\* the first position of a code in a list that holds it
FirstPos(seq, code) == MinOf({k \in DOMAIN seq : seq[k] = code})

\* p comes before d where both are in the list
Before(seq, p, d) ==
    /\ p \in Codes(seq) /\ d \in Codes(seq)
    /\ FirstPos(seq, p) < FirstPos(seq, d)

\* the backlogs generate_backlog persisted and returned
PersistedBacklogs ==
    IF backlog_pc = "done" /\ backlog_outcome = Created
    THEN {doc \in release_backlogs : doc.by # 0}
    ELSE {}

\* the list the persisted order comes from: the codes of the response when
\* one of them is a code of the project, else the codes in alphabetical order
OrderSource ==
    LET codes == ask_gemini(backlog_response).codes
    IN  IF Codes(codes) \cap story_codes(user_stories) # {}
        THEN codes
        ELSE sorted_story_codes(user_stories)

\* C24: in every persisted backlog, for every edge (p -> d) of the stored
\* dependency graph with both codes in the backlog, p comes before d.
C24_PrerequisitesComeFirst ==
    \A doc \in PersistedBacklogs :
       \A e \in Edges(dependencies_graph) :
          (e[1] # e[2] /\ e[1] \in Codes(doc.us_codes)
             /\ e[2] \in Codes(doc.us_codes))
          => Before(doc.us_codes, e[1], e[2])

\* C24, amended: generate_backlog does not order by the graph; for every
\* edge (p -> d) with both codes in the persisted backlog, p comes before d
\* exactly when it does in the generation response (in the alphabetical
\* order of the codes for the fallback).
C24_OrderIsTheResponseOrder ==
    \A doc \in PersistedBacklogs :
       \A e \in Edges(dependencies_graph) :
          (e[1] \in Codes(doc.us_codes) /\ e[2] \in Codes(doc.us_codes))
          => (Before(doc.us_codes, e[1], e[2])
                <=> Before(OrderSource, e[1], e[2]))

C24_Witness ==
    /\ ObjectId_ok(project_id)
    /\ dependencies_graph = GraphDoc
    /\ backlog_response.kind = "list"
    /\ backlog_response.items = <<"US-2", "US-1">>
    /\ \E doc \in PersistedBacklogs : doc.us_codes = <<"US-2", "US-1">>

\* the generation calls of invocation i that returned a response
ReturnedCalls(i) ==
    (IF first_kind[i] \notin {"none", "raise"} THEN 1 ELSE 0)
    + (IF regen_kind[i] \notin {"none", "raise"} THEN 1 ELSE 0)

\* C26: the token totals persisted with a release plan are the sums of the
\* counts the generation calls of the invocation reported (one call, or two
\* when the plan was regenerated).
C26_TokenTotalsAreSumsOfCalls ==
    \A i \in Procs : \A doc \in release_plans :
       (pc[i] \in {"respond", "done"} /\ doc.by = i)
       => /\ doc.total_prompt_tokens =
                ReturnedCalls(i) * UsageMetadata.prompt_token_count
          /\ doc.total_completion_tokens =
                ReturnedCalls(i) * UsageMetadata.candidates_token_count

\* C25: every generation call runs on a worker thread: while the call of one
\* request is outstanding, each other request that has not ended can take
\* its next step.
C25_OutstandingCallLeavesLoopFree ==
    /\ PlanCallOutstanding =>
          /\ graph_pc # "done" => ENABLED LoopGraphStep
          /\ backlog_pc # "done" => ENABLED LoopBacklogStep
    /\ GraphCallOutstanding =>
          /\ pc[1] # "done" => ENABLED LoopPlanStep
          /\ backlog_pc # "done" => ENABLED LoopBacklogStep
    /\ BacklogCallOutstanding =>
          /\ pc[1] # "done" => ENABLED LoopPlanStep
          /\ graph_pc # "done" => ENABLED LoopGraphStep

\* a candidate line the loop of _ask_gemini logs as discarded: json.loads,
\* j["frm"], j["to"] or set.update raised
FailsProcessing(line) ==
    \/ line.kind \in {"bad_json", "no_key"}
    \/ /\ line.kind = "json"
       /\ \/ line.to.kind = "number"
          \/ \E k \in DOMAIN line.to.items : line.to.items[k] = NestedList

\* the response with the discarded lines taken out
WithoutFailedLines(response) ==
    [response EXCEPT
        !.lines = SelectSeq(@, LAMBDA line : ~FailsProcessing(line))]

\* C27: a line that fails to be processed is dropped entirely: the graph
\* build_graph returns is the graph of the response without that line, with
\* no prerequisite entry and no edge left by it.
C27_FailedLineLeavesNothing ==
    (graph_pc = "done" /\ graph_outcome = Created)
    => graph_returned.pairs =
          graph_ask_gemini(WithoutFailedLines(graph_response)).pairs

NoRepeatedCode(ss) ==
    \A j, k \in DOMAIN ss : j # k => ss[j].code # ss[k].code

C29_ErrorLeavesStoredPlan ==
    \A i \in Procs :
       (pc[i] = "done" /\ outcome[i] \in {NotFound, Internal})
       => release_plans = stored_before[i]

NoRepeats(seq) == \A j, k \in DOMAIN seq : j # k => seq[j] # seq[k]

\* C30: a persisted release backlog lists each story code once, and when it
\* is built from the generation response its codes are the valid codes of
\* the response in the order of the response.
C30_BacklogCodesOnceInResponseOrder ==
    \A doc \in PersistedBacklogs :
       /\ NoRepeats(doc.us_codes)
       /\ Codes(ask_gemini(backlog_response).codes)
             \cap story_codes(backlog_stories) # {}
          => \A p, d \in Codes(doc.us_codes) :
                Before(doc.us_codes, p, d)
                   <=> Before(ask_gemini(backlog_response).codes, p, d)

====
